---- MODULE Spec2Model ----
(***************************************************************************)
(* json-eval: the JSON value model, the reference engine (json_reference,  *)
(* json_set, json_function: emplace_back, set_parent, set_root, value,     *)
(* simplify), the cycle guard (touch / looped) and the formatter, as a     *)
(* state machine over a heap of shared nodes.                              *)
(*                                                                         *)
(* A node is a record; a std::shared_ptr<json> is the index of the node in *)
(* `heap` (nullptr is 0).  Every operation of the library is an operator   *)
(* from a heap to a heap, a status (the C++ exception that left it, or     *)
(* "ok") and a returned pointer.                                           *)
(***************************************************************************)
EXTENDS Integers, Sequences, FiniteSets, TLC

VARIABLES
    heap,                       \* Seq(node): every json object allocated so far
    result,                     \* the caller's std::shared_ptr<json> result
    thrown,                     \* exception that left the last operation, or "ok"
    text,                       \* what the last to_string() returned
    last,                       \* the last operation: its name and the value it worked on
    free,                       \* values parsed and not yet part of another value
    atoms,                      \* `@`, `$`, set and function atoms parsed so far
    enable_symmetric_indexing,  \* json.hpp:84
    enable_negative_indexing    \* json.hpp:126

vars == <<heap, result, thrown, text, last, free, atoms,
          enable_symmetric_indexing, enable_negative_indexing>>

----------------------------------------------------------------------------
(* Bounds of the model *)

MaxNodes == 10      \* heap cells
MaxContainers == 1  \* array and object literals of the expression parsed
MaxRefs == 1        \* `@`, `$`, set and function atoms of the expression parsed
MaxLen == 2         \* children of a parsed array / object, elements of a set
MaxTail == 1        \* accessors pending on one reference
MaxArgs == 1        \* arguments of a function
MaxPending == 2     \* values parsed and waiting to be made part of another
Fuel == 12          \* call depth after which recursion counts as unbounded
MaxIndex == 3       \* the indexes at() is called with are -MaxIndex..MaxIndex
MaxItems == 2       \* items of an array / object / set written in a text
MaxPieces == 2      \* characters and escapes of a string literal written in a text
MaxNumber == 5      \* characters of a number text
MaxText == 5        \* characters of a text of white space, comments and expressions
MaxPath == 2        \* accessors appended to one reference by emplace_back

nullptr == 0

Keys == {"a", "b"}

----------------------------------------------------------------------------
(* Values: json.hpp json_type, reference.hpp json_reference_type and       *)
(* ref_head_type                                                           *)

json_type == {"null_json", "boolean_json", "integer_json", "real_json",
              "string_json", "array_json", "object_json", "reference_json"}

json_reference_type == {"reference_json", "set_json", "function_json"}

ref_head_type == {"local", "root", "accessor", "object", "set"}

NoIndexes == [k \in {} |-> 0]

\* class json: a null value; the other classes override fields of it
json ==
    [type |-> "null_json", value |-> 0, str |-> "",
     list |-> <<>>, keys |-> <<>>, indexes |-> NoIndexes,
     looped |-> FALSE, touched |-> FALSE,
     reference_type |-> "none", head_type |-> "none",
     head |-> nullptr, tail |-> <<>>]

json_boolean(b) == [json EXCEPT !.type = "boolean_json", !.value = IF b THEN 1 ELSE 0]

json_integer(v) == [json EXCEPT !.type = "integer_json", !.value = v]

json_string(s) == [json EXCEPT !.type = "string_json", !.str = s]

\* a json_real that keeps no text
json_real_value(s) == [json EXCEPT !.type = "real_json"]

\* json_real::json_real(const std::string&): the text is kept
json_real(s) == [json EXCEPT !.type = "real_json", !.str = s]

\* json_array::json_array before its touch(): list(arr)
json_array(arr) == [json EXCEPT !.type = "array_json", !.list = arr]

\* json_object::json_object before its touch(): data(obj) and the loop
\* indexes[obj[i].first] = i, in which a later equal key overwrites an
\* earlier one.  data[i] is <<keys[i], list[i]>>.
json_object(ks, vs) ==
    [json EXCEPT !.type = "object_json", !.keys = ks, !.list = vs,
                 !.indexes = [k \in {ks[i] : i \in 1..Len(ks)} |->
                                 CHOOSE i \in 1..Len(ks) :
                                     /\ ks[i] = k
                                     /\ \A j \in 1..Len(ks) : ks[j] = k => j <= i]]

\* json_reference::json_reference(ref_head_type)
json_reference(ht) ==
    [json EXCEPT !.type = "reference_json", !.reference_type = "reference_json",
                 !.head_type = ht]

\* json_reference::json_reference(const std::shared_ptr<json>& head)
json_reference_to(hd) ==
    [json EXCEPT !.type = "reference_json", !.reference_type = "reference_json",
                 !.head_type = "object", !.head = hd]

\* json_set::json_set(elements)
json_set(elements) ==
    [json EXCEPT !.type = "reference_json", !.reference_type = "set_json",
                 !.head_type = "accessor", !.list = elements]

\* json_function::json_function(name): the base is json_reference() whose
\* default head type is root
json_function(name) ==
    [json EXCEPT !.type = "reference_json", !.reference_type = "function_json",
                 !.head_type = "root", !.str = name]

\* the value of a call that is made once and whose result is then used:
\* Only({e(x) : x \in {call}}) is e(call)
Only(S) == CHOOSE x \in S : TRUE

\* what an operation hands back: the heap it leaves, "ok" or the exception
\* that left it, and the pointer it returns
Ret(h, st, v) == [h |-> h, st |-> st, v |-> v]

IsRef(h, x) == h[x].type = "reference_json"

IsPlainRef(h, x) == IsRef(h, x) /\ h[x].reference_type = "reference_json"

IsSet(h, x) == IsRef(h, x) /\ h[x].reference_type = "set_json"

IsFunction(h, x) == IsRef(h, x) /\ h[x].reference_type = "function_json"

----------------------------------------------------------------------------
(* Indexing primitives: json.cpp at() and by()                             *)

\* size_t arithmetic wraps modulo this; the indexes and sizes of the model
\* are far below it, as an int and a vector's size are below 2^64
size_t_modulus == 65536

\* a json_array::at that ignores enable_negative_indexing
array_at_unsigned(h, a, index) ==
    IF index % size_t_modulus < Len(h[a].list)
    THEN Ret(h, "ok", h[a].list[(index % size_t_modulus) + 1])
    ELSE Ret(h, "out_of_range", nullptr)

\* json_array::at(int index): static_cast<size_t>(index), to which size()
\* is added when the index is negative and negative indexing is enabled
array_at(h, a, index) ==
    LET size == Len(h[a].list)
        absolute_index ==
            IF enable_negative_indexing /\ index < 0
            THEN ((index % size_t_modulus) + size) % size_t_modulus
            ELSE index % size_t_modulus
    IN IF absolute_index < size
       THEN Ret(h, "ok", h[a].list[absolute_index + 1])
       ELSE Ret(h, "out_of_range", nullptr)

\* json_object::at(const std::string& key)
object_at(h, o, key) ==
    IF key \in DOMAIN h[o].indexes
    THEN Ret(h, "ok", h[o].list[h[o].indexes[key]])
    ELSE Ret(h, "out_of_range", nullptr)

\* a by() in which json_integer and json_string do not override json::by
by_asymmetric(h, a, item) ==
    CASE h[a].type = "array_json" ->
            IF h[item].type # "integer_json"
            THEN Ret(h, "invalid_argument", nullptr)
            ELSE array_at(h, a, h[item].value)
      [] h[a].type = "object_json" ->
            IF h[item].type # "string_json"
            THEN Ret(h, "invalid_argument", nullptr)
            ELSE object_at(h, a, h[item].str)
      [] OTHER -> Ret(h, "invalid_argument", nullptr)

\* a by() whose integer and string overrides do not test the toggle
by_symmetric(h, a, item) ==
    CASE h[a].type = "integer_json" ->
            IF h[item].type = "array_json"
            THEN array_at(h, item, h[a].value)
            ELSE Ret(h, "invalid_argument", nullptr)
      [] h[a].type = "string_json" ->
            IF h[item].type # "object_json"
            THEN Ret(h, "invalid_argument", nullptr)
            ELSE object_at(h, item, h[a].str)
      [] h[a].type = "array_json" ->
            IF h[item].type # "integer_json"
            THEN Ret(h, "invalid_argument", nullptr)
            ELSE array_at(h, a, h[item].value)
      [] h[a].type = "object_json" ->
            IF h[item].type # "string_json"
            THEN Ret(h, "invalid_argument", nullptr)
            ELSE object_at(h, a, h[item].str)
      [] OTHER -> Ret(h, "invalid_argument", nullptr)

\* json::by and its overrides: a.by(item)
by(h, a, item) ==
    CASE h[a].type = "integer_json" ->
            IF enable_symmetric_indexing /\ h[item].type = "array_json"
            THEN array_at(h, item, h[a].value)
            ELSE Ret(h, "invalid_argument", nullptr)
      [] h[a].type = "string_json" ->
            IF ~enable_symmetric_indexing \/ h[item].type # "object_json"
            THEN Ret(h, "invalid_argument", nullptr)
            ELSE object_at(h, item, h[a].str)
      [] h[a].type = "array_json" ->
            IF h[item].type # "integer_json"
            THEN Ret(h, "invalid_argument", nullptr)
            ELSE array_at(h, a, h[item].value)
      [] h[a].type = "object_json" ->
            IF h[item].type # "string_json"
            THEN Ret(h, "invalid_argument", nullptr)
            ELSE object_at(h, a, h[item].str)
      [] OTHER -> Ret(h, "invalid_argument", nullptr)

----------------------------------------------------------------------------
(* The reference engine: reference.cpp                                     *)

\* std::make_shared: a new heap cell
New(h, node) == Ret(Append(h, node), "ok", Len(h) + 1)

RECURSIVE value(_, _, _)
RECURSIVE function_value(_, _, _)
RECURSIVE first_arg(_, _, _)
RECURSIVE fold(_, _, _, _, _, _, _)

\* a fold that takes the last item for the result, whatever the items are
fold_last(h, f, items, i, res, is_max, fuel) ==
    New(h, json_integer(h[items[Len(items)]].value))

\* the loop bodies of json_function::value for min / max (lines 243-266 and
\* 269-290): items are the array's items or the arguments
fold(h, f, items, i, res, is_max, fuel) ==
    IF i > Len(items) THEN New(h, json_integer(res))
    ELSE Only({
        IF v.st # "ok" THEN v
        ELSE IF IsRef(v.h, v.v) THEN Ret(v.h, "ok", f)
        ELSE IF v.h[v.v].type # "integer_json"
             THEN Ret(v.h, "invalid_argument", nullptr)
        ELSE LET val == v.h[v.v].value
             IN fold(v.h, f, items, i + 1,
                     IF i = 1 \/ (is_max /\ val > res) \/ (~is_max /\ val < res)
                     THEN val ELSE res,
                     is_max, fuel) :
        v \in {IF IsRef(h, items[i]) THEN value(h, items[i], fuel - 1)
               ELSE Ret(h, "ok", items[i])}})

\* json_function::value on one argument:
\* args[0] = dynamic_pointer_cast<json_reference>(args[0])->value()
first_arg(h, f, fuel) ==
    IF ~IsRef(h, h[f].list[1]) THEN Ret(h, "ok", h[f].list[1])
    ELSE Only({IF a.st # "ok" THEN a
               ELSE Ret([a.h EXCEPT ![f].list[1] = a.v], "ok", a.v) :
               a \in {value(h, h[f].list[1], fuel - 1)}})

\* json_function::value
function_value(h, f, fuel) ==
    LET name == h[f].str
        args == h[f].list
    IN IF name = "size" THEN
           IF Len(args) # 1 THEN New(h, json_integer(Len(args)))
           ELSE Only({
               IF a0.st # "ok" THEN a0
               ELSE IF a0.h[a0.v].type \in {"array_json", "object_json"}
                    THEN New(a0.h, json_integer(Len(a0.h[a0.v].list)))
                    ELSE Ret(a0.h, "ok", f) :
               a0 \in {first_arg(h, f, fuel)}})
       ELSE IF name \in {"min", "max"} THEN
           IF Len(args) = 0 THEN Ret(h, "invalid_argument", nullptr)
           ELSE IF Len(args) = 1 THEN
               Only({
                   IF a0.st # "ok" THEN a0
                   ELSE IF IsRef(a0.h, a0.v) THEN Ret(a0.h, "ok", f)
                   ELSE IF a0.h[a0.v].type = "array_json" THEN
                       IF Len(a0.h[a0.v].list) = 0
                       THEN Ret(a0.h, "invalid_argument", nullptr)
                       ELSE fold(a0.h, f, a0.h[a0.v].list, 1, -1, name = "max", fuel)
                   ELSE New(a0.h, json_integer(-1)) :
                   a0 \in {first_arg(h, f, fuel)}})
           ELSE fold(h, f, args, 1, -1, name = "max", fuel)
       ELSE Ret(h, "ok", f)

\* a value() that looks through an object head whatever is pending
value_head(h, r, fuel) ==
    IF fuel <= 0 THEN Ret(h, "overflow", nullptr)
    ELSE IF IsFunction(h, r) THEN function_value(h, r, fuel)
    ELSE IF h[r].head_type # "object" THEN Ret(h, "ok", r)
    ELSE IF ~IsRef(h, h[r].head) THEN Ret(h, "ok", h[r].head)
    ELSE value(h, h[r].head, fuel - 1)

\* a value() that hands back the head without chasing through it
value_unchased(h, r, fuel) ==
    IF Len(h[r].tail) > 0 \/ h[r].head_type # "object" THEN Ret(h, "ok", r)
    ELSE Ret(h, "ok", h[r].head)

\* json_reference::value, and json_function::value by virtual dispatch
value(h, r, fuel) ==
    IF fuel <= 0 THEN Ret(h, "overflow", nullptr)
    ELSE IF IsFunction(h, r) THEN function_value(h, r, fuel)
    ELSE IF Len(h[r].tail) > 0 \/ h[r].head_type # "object" THEN Ret(h, "ok", r)
    ELSE IF ~IsRef(h, h[r].head) THEN Ret(h, "ok", h[r].head)
    ELSE value(h, h[r].head, fuel - 1)

RECURSIVE simplify(_, _, _)
RECURSIVE emplace_back(_, _, _, _)
RECURSIVE set_parent(_, _, _, _)
RECURSIVE set_emplace_back(_, _, _, _, _)
RECURSIVE set_set_parent(_, _, _, _, _)
RECURSIVE function_set_parent(_, _, _, _, _)

\* a simplify that returns before its loop
simplify_return(h, r, fuel) == Ret(h, "ok", nullptr)

\* json_reference::simplify: one pass of the while loop, then the rest
simplify(h, r, fuel) ==
    IF fuel <= 0 THEN Ret(h, "overflow", nullptr)
    ELSE IF ~(h[r].head_type = "object" /\ Len(h[r].tail) > 0)
         THEN Ret(h, "ok", nullptr)
    ELSE
    LET accessor == Head(h[r].tail)
        head == h[r].head
    IN IF IsRef(h, head) THEN
           Only({
               IF e.st # "ok" THEN e
               ELSE Only({
                   IF v.st # "ok" THEN v
                   ELSE simplify([v.h EXCEPT ![r].head = v.v], r, fuel - 1) :
                   v \in {value(e.h, head, fuel - 1)}}) :
               e \in {emplace_back([h EXCEPT ![r].tail = Tail(@)], head, accessor,
                                   fuel - 1)}})
       ELSE IF IsPlainRef(h, accessor) THEN
           IF h[accessor].head_type = "root" THEN Ret(h, "ok", nullptr)
           ELSE Only({
               IF p.st # "ok" THEN p
               ELSE Only({
                   IF v.st # "ok" THEN v
                   ELSE simplify([v.h EXCEPT ![r].tail[1] = v.v], r, fuel - 1) :
                   v \in {value(p.h, accessor, fuel - 1)}}) :
               p \in {set_parent(h, accessor, head, fuel - 1)}})
       ELSE IF IsSet(h, accessor) THEN
           Only({
               IF p.st # "ok" THEN p
               ELSE Only({
                   IF v.st # "ok" THEN v
                   ELSE simplify([v.h EXCEPT ![r].head = v.v, ![r].tail = Tail(@)],
                                 r, fuel - 1) :
                   v \in {value(p.h, accessor, fuel - 1)}}) :
               p \in {set_parent(h, accessor, head, fuel - 1)}})
       ELSE IF IsFunction(h, accessor) THEN Ret(h, "ok", nullptr)
       ELSE Only({
           IF b.st # "ok" THEN b
           ELSE simplify([h EXCEPT ![r].head = b.v, ![r].tail = Tail(@)],
                         r, fuel - 1) :
           b \in {by(h, head, accessor)}})

\* json_set::emplace_back: the loop over the elements, from element i on
set_emplace_back(h, s, i, item, fuel) ==
    IF i > Len(h[s].list) THEN Ret(h, "ok", nullptr)
    ELSE Only({
        IF e.st # "ok" THEN e
        ELSE set_emplace_back(e.h, s, i + 1, item, fuel) :
        e \in {emplace_back(h, h[s].list[i], item, fuel - 1)}})

\* an emplace_back that appends and never simplifies
emplace_back_append(h, r, accessor, fuel) ==
    Ret([h EXCEPT ![r].tail = Append(@, accessor)], "ok", nullptr)

\* json_reference::emplace_back (also json_function's), json_set::emplace_back
emplace_back(h, r, accessor, fuel) ==
    IF fuel <= 0 THEN Ret(h, "overflow", nullptr)
    ELSE IF IsSet(h, r) THEN set_emplace_back(h, r, 1, accessor, fuel)
    ELSE LET abstract == h[r].head_type # "object" \/ Len(h[r].tail) > 0
             h1 == [h EXCEPT ![r].tail = Append(@, accessor)]
         IN IF ~abstract THEN simplify(h1, r, fuel - 1)
            ELSE Ret(h1, "ok", nullptr)

\* a json_set::set_parent whose loop binds no element
set_set_parent_none(h, s, i, local, fuel) == Ret(h, "ok", nullptr)

\* json_set::set_parent: the loop over the elements, from element i on
set_set_parent(h, s, i, local, fuel) ==
    IF i > Len(h[s].list) THEN Ret(h, "ok", nullptr)
    ELSE Only({
        IF p.st # "ok" THEN p
        ELSE set_set_parent(p.h, s, i + 1, local, fuel) :
        p \in {set_parent(h, h[s].list[i], local, fuel - 1)}})

\* json_function::set_parent: the loop over the arguments, from argument i on
function_set_parent(h, f, i, local, fuel) ==
    IF i > Len(h[f].list) THEN Ret(h, "ok", nullptr)
    ELSE IF ~IsRef(h, h[f].list[i])
         THEN function_set_parent(h, f, i + 1, local, fuel)
    ELSE LET ref_arg == h[f].list[i]
         IN Only({
             IF p.st # "ok" THEN p
             ELSE Only({
                 IF v.st # "ok" THEN v
                 ELSE function_set_parent([v.h EXCEPT ![f].list[i] = v.v], f,
                                          i + 1, local, fuel) :
                 v \in {value(p.h, ref_arg, fuel - 1)}}) :
             p \in {set_parent(h, ref_arg, local, fuel - 1)}})

\* a set_parent that binds nothing
set_parent_none(h, r, local, fuel) == Ret(h, "ok", nullptr)

\* a set_parent without json_set's override: a set is bound like a plain
\* reference
set_parent_plain(h, r, local, fuel) ==
    IF fuel <= 0 THEN Ret(h, "overflow", nullptr)
    ELSE IF IsFunction(h, r) THEN function_set_parent(h, r, 1, local, fuel)
    ELSE IF h[r].head_type \in {"local", "accessor"}
         THEN simplify([h EXCEPT ![r].head = local, ![r].head_type = "object"],
                       r, fuel - 1)
         ELSE Ret(h, "ok", nullptr)

\* json_reference::set_parent, json_set::set_parent, json_function::set_parent
set_parent(h, r, local, fuel) ==
    IF fuel <= 0 THEN Ret(h, "overflow", nullptr)
    ELSE IF IsSet(h, r) THEN
        Only({
            IF p.st # "ok" THEN p
            ELSE Ret([p.h EXCEPT ![r].head_type = "set"], "ok", nullptr) :
            p \in {set_set_parent(h, r, 1, local, fuel)}})
    ELSE IF IsFunction(h, r) THEN function_set_parent(h, r, 1, local, fuel)
    ELSE IF h[r].head_type \in {"local", "accessor"}
         THEN simplify([h EXCEPT ![r].head = local, ![r].head_type = "object"],
                       r, fuel - 1)
         ELSE Ret(h, "ok", nullptr)

\* json::set_root on a value that is no reference: nothing to bind
json_set_root(h, x, item) == Ret(h, "ok", nullptr)

RECURSIVE set_root(_, _, _, _)
RECURSIVE each_set_root(_, _, _, _, _)

\* the loops of the three set_root: every node of xs, from the i-th on
each_set_root(h, xs, i, item, fuel) ==
    IF i > Len(xs) THEN Ret(h, "ok", nullptr)
    ELSE Only({
        IF s.st # "ok" THEN s
        ELSE each_set_root(s.h, xs, i + 1, item, fuel) :
        s \in {set_root(h, xs[i], item, fuel - 1)}})

\* json_reference::set_root, json_set::set_root, json_function::set_root
set_root(h, x, item, fuel) ==
    IF fuel <= 0 THEN Ret(h, "overflow", nullptr)
    ELSE IF ~IsRef(h, x) THEN json_set_root(h, x, item)
    ELSE IF IsSet(h, x) \/ IsFunction(h, x)
         THEN each_set_root(h, h[x].list, 1, item, fuel)
    ELSE Only({
        IF t.st # "ok" THEN t
        ELSE IF t.h[x].head_type = "root"
             THEN simplify([t.h EXCEPT ![x].head = item,
                                       ![x].head_type = "object"],
                           x, fuel - 1)
             ELSE t :
        t \in {each_set_root(h, h[x].tail, 1, item, fuel)}})

----------------------------------------------------------------------------
(* The cycle guard and the formatter: json.cpp and reference.cpp           *)

\* a touch that visits nothing and flags nothing
touch_none(h, x, fuel) == Ret(h, "ok", nullptr)

RECURSIVE touch(_, _, _)
RECURSIVE each_touch(_, _, _, _)

each_touch(h, xs, i, fuel) ==
    IF i > Len(xs) THEN Ret(h, "ok", nullptr)
    ELSE Only({
        IF t.st # "ok" THEN t ELSE each_touch(t.h, xs, i + 1, fuel) :
        t \in {touch(h, xs[i], fuel - 1)}})

\* json_array::touch, json_object::touch, json_reference::touch (which a
\* json_function inherits), json_set::touch, json::touch
touch(h, x, fuel) ==
    IF fuel <= 0 THEN Ret(h, "overflow", nullptr)
    ELSE IF h[x].type \in {"array_json", "object_json"} THEN
        IF h[x].touched THEN Ret([h EXCEPT ![x].looped = TRUE], "ok", nullptr)
        ELSE Only({
            IF t.st # "ok" THEN t
            ELSE Ret([t.h EXCEPT ![x].touched = FALSE], "ok", nullptr) :
            t \in {each_touch([h EXCEPT ![x].touched = TRUE], h[x].list, 1, fuel)}})
    ELSE IF IsSet(h, x) THEN each_touch(h, h[x].list, 1, fuel)
    ELSE IF IsRef(h, x) THEN
        Only({
            IF t.st # "ok" THEN t ELSE each_touch(t.h, h[x].tail, 1, fuel) :
            t \in {IF h[x].head_type = "object" THEN touch(h, h[x].head, fuel - 1)
                   ELSE Ret(h, "ok", nullptr)}})
    ELSE Ret(h, "ok", nullptr)

\* what to_string hands back: "ok" and the text, or the exception
Str(st, s) == [st |-> st, s |-> s]

RECURSIVE to_string(_, _, _)
RECURSIVE escaped(_, _)

\* a string formatter that emits every character as it is
escaped_raw(str, i) == SubSeq(str, i, Len(str))

\* json_string::to_string's loop over the characters of str from the i-th
\* on: `"` and `\`, form feed, line feed, carriage return and tab are
\* emitted as their two-character escapes, every other character as it is
escaped(str, i) ==
    IF i > Len(str) THEN ""
    ELSE LET ch == SubSeq(str, i, i)
         IN (CASE ch = "\"" -> "\\\""
               [] ch = "\\" -> "\\\\"
               [] ch = "\f" -> "\\f"
               [] ch = "\n" -> "\\n"
               [] ch = "\r" -> "\\r"
               [] ch = "\t" -> "\\t"
               [] OTHER -> ch) \o escaped(str, i + 1)

RECURSIVE format_container(_, _, _, _)
RECURSIVE tail_to_string(_, _, _, _)

\* format_container without pretty: the items from the i-th on, ", " between
\* two of them; an object's item is "key": value (json_object::format_item)
format_container(h, x, i, fuel) ==
    IF i > Len(h[x].list) THEN Str("ok", "")
    ELSE LET key == IF h[x].type = "object_json"
                    THEN "\"" \o h[x].keys[i] \o "\": " ELSE ""
         IN Only({
             IF item.st # "ok" THEN item
             ELSE Only({
                 IF rest.st # "ok" THEN rest
                 ELSE Str("ok", (IF i > 1 THEN ", " ELSE "") \o key \o item.s
                                    \o rest.s) :
                 rest \in {format_container(h, x, i + 1, fuel)}}) :
             item \in {to_string(h, h[x].list[i], fuel - 1)}})

\* json_reference::tail_to_string, from accessor i on
tail_to_string(h, r, i, fuel) ==
    IF i > Len(h[r].tail) THEN Str("ok", "")
    ELSE LET accessor == h[r].tail[i]
         IN Only({
             IF suffix.st # "ok" THEN suffix
             ELSE Only({
                 IF rest.st # "ok" THEN rest
                 ELSE IF IsSet(h, accessor) THEN Str("ok", suffix.s \o rest.s)
                 ELSE Str("ok", "[" \o suffix.s \o "]" \o rest.s) :
                 rest \in {tail_to_string(h, r, i + 1, fuel)}}) :
             suffix \in {to_string(h, accessor, fuel - 1)}})

\* to_string(): indented_string(0, false) of every class
to_string(h, x, fuel) ==
    IF fuel <= 0 THEN Str("overflow", "")
    ELSE
    CASE h[x].type = "null_json" -> Str("ok", "null")
      [] h[x].type = "boolean_json" ->
            Str("ok", IF h[x].value = 1 THEN "true" ELSE "false")
      [] h[x].type = "integer_json" -> Str("ok", ToString(h[x].value))
      [] h[x].type = "real_json" -> Str("ok", h[x].str)
      [] h[x].type = "string_json" ->
            Str("ok", "\"" \o escaped(h[x].str, 1) \o "\"")
      [] h[x].type \in {"array_json", "object_json"} ->
            IF h[x].looped THEN Str("runtime_error", "")
            ELSE Only({
                IF items.st # "ok" THEN items
                ELSE IF h[x].type = "array_json"
                     THEN Str("ok", "[" \o items.s \o "]")
                     ELSE Str("ok", "{" \o items.s \o "}") :
                items \in {format_container(h, x, 1, fuel)}})
      [] OTHER ->
            \* the head, or the elements of a set, or the name and the
            \* arguments of a function; then the tail
            Only({
                IF hd.st # "ok" THEN hd
                ELSE Only({
                    IF t.st # "ok" THEN t
                    ELSE IF IsSet(h, x) THEN
                        IF h[x].head_type = "set"
                        THEN Str("ok", "[" \o hd.s \o "]" \o t.s)
                        ELSE Str("ok", "{" \o hd.s \o "}" \o t.s)
                    ELSE IF IsFunction(h, x)
                         THEN Str("ok", h[x].str \o "(" \o hd.s \o ")" \o t.s)
                    ELSE Str("ok", hd.s \o t.s) :
                    t \in {tail_to_string(h, x, 1, fuel)}}) :
                hd \in {IF IsSet(h, x) \/ IsFunction(h, x)
                        THEN format_container(h, x, 1, fuel)
                        ELSE IF h[x].head_type = "object"
                        THEN to_string(h, h[x].head, fuel - 1)
                        ELSE Str("ok", IF h[x].head_type = "local" THEN "@"
                                       ELSE IF h[x].head_type = "root" THEN "$"
                                       ELSE "")}})

----------------------------------------------------------------------------
(* Compact values and the pretty formatter: json.cpp and json.hpp          *)

\* json::is_empty
is_empty(h, x) ==
    IF h[x].type \in {"array_json", "object_json"} THEN Len(h[x].list) = 0
    ELSE TRUE

\* an is_inline that holds of every value
is_inline_all(h, x, fuel) == TRUE

RECURSIVE is_inline(_, _, _)

\* json::is_inline and its overrides; the recursion ends on every value
\* that has no cycle
is_inline(h, x, fuel) ==
    IF fuel <= 0 THEN FALSE
    ELSE IF h[x].type = "array_json"
    THEN \A i \in 1..Len(h[x].list) :
            is_inline(h, h[x].list[i], fuel - 1) /\ is_empty(h, h[x].list[i])
    ELSE IF h[x].type = "object_json"
    THEN \/ Len(h[x].list) = 0
         \/ /\ Len(h[x].list) = 1
            /\ is_inline(h, h[x].list[1], fuel - 1)
            /\ is_empty(h, h[x].list[1])
    ELSE TRUE

RECURSIVE tabs(_)

\* std::string(indent_level, '\t')
tabs(indent_level) ==
    IF indent_level = 0 THEN "" ELSE "\t" \o tabs(indent_level - 1)

RECURSIVE indented_string(_, _, _, _, _)
RECURSIVE format_items(_, _, _, _, _, _)

\* the loop of format_container: the items from the i-th on, each on its
\* own line under pretty
format_items(h, x, i, indent_level, pretty, fuel) ==
    IF i > Len(h[x].list) THEN Str("ok", "")
    ELSE LET key == IF h[x].type = "object_json"
                    THEN "\"" \o h[x].keys[i] \o "\": " ELSE ""
             nested_level == IF pretty THEN indent_level + 1 ELSE indent_level
         IN Only({
             IF item.st # "ok" THEN item
             ELSE Only({
                 IF rest.st # "ok" THEN rest
                 ELSE Str("ok", (IF i > 1
                                 THEN "," \o (IF pretty THEN "\n" ELSE " ")
                                 ELSE "")
                                \o (IF pretty THEN tabs(indent_level) \o "\t"
                                    ELSE "")
                                \o key \o item.s \o rest.s) :
                 rest \in {format_items(h, x, i + 1, indent_level, pretty, fuel)}}) :
             item \in {indented_string(h, h[x].list[i], nested_level, pretty,
                                       fuel - 1)}})

\* to_string(indent_level, is_pretty) of a value: a container is formatted
\* with is_pretty && !is_inline(); a set and a function take no notice of
\* either argument
indented_string(h, x, indent_level, pretty, fuel) ==
    IF fuel <= 0 THEN Str("overflow", "")
    ELSE IF h[x].type \in {"array_json", "object_json"} THEN
        IF h[x].looped THEN Str("runtime_error", "")
        ELSE LET is_pretty == pretty /\ ~is_inline(h, x, fuel)
             IN Only({
                 IF items.st # "ok" THEN items
                 ELSE Str("ok",
                          (IF h[x].type = "array_json" THEN "[" ELSE "{")
                          \o (IF is_pretty THEN "\n" ELSE "")
                          \o items.s
                          \o (IF is_pretty THEN "\n" \o tabs(indent_level) ELSE "")
                          \o (IF h[x].type = "array_json" THEN "]" ELSE "}")) :
                 items \in {format_items(h, x, 1, indent_level, is_pretty, fuel)}})
    ELSE IF IsPlainRef(h, x) /\ h[x].head_type = "object" THEN
        Only({
            IF hd.st # "ok" THEN hd
            ELSE Only({
                IF t.st # "ok" THEN t ELSE Str("ok", hd.s \o t.s) :
                t \in {tail_to_string(h, x, 1, fuel)}}) :
            hd \in {indented_string(h, h[x].head, indent_level, pretty, fuel - 1)}})
    ELSE to_string(h, x, fuel)

----------------------------------------------------------------------------
(* Containers that hold references                                         *)

RECURSIVE bind_children(_, _, _, _)

\* The enclosing container's traversal of its children: a child that is a
\* reference is bound to the container (set_parent) and its slot is replaced
\* by the reference's value().
bind_children(h, c, i, fuel) ==
    IF i > Len(h[c].list) THEN Ret(h, "ok", nullptr)
    ELSE IF ~IsRef(h, h[c].list[i]) THEN bind_children(h, c, i + 1, fuel)
    ELSE LET child == h[c].list[i]
         IN Only({
             IF p.st # "ok" THEN p
             ELSE Only({
                 IF v.st # "ok" THEN v
                 ELSE bind_children([v.h EXCEPT ![c].list[i] = v.v], c, i + 1,
                                    fuel) :
                 v \in {value(p.h, child, fuel - 1)}}) :
             p \in {set_parent(h, child, c, fuel - 1)}})

\* parse_json's array and object branches on the children already parsed:
\* the constructor (which touches), the binding of the children, and
\* result->touch()
parse_container(h, node, fuel) ==
    LET c == Len(h) + 1
    IN Only({
        IF t1.st # "ok" THEN Ret(t1.h, t1.st, c)
        ELSE Only({
            IF b.st # "ok" THEN Ret(b.h, b.st, c)
            ELSE Only({Ret(t2.h, t2.st, c) : t2 \in {touch(b.h, c, fuel)}}) :
            b \in {bind_children(t1.h, c, 1, fuel)}}) :
        t1 \in {touch(New(h, node).h, c, fuel)}})

\* json_function::set_args: true when some argument makes it throw
recursive_function(h, args) ==
    \E i \in 1..Len(args) :
        /\ IsRef(h, args[i])
        /\ Len(h[args[i]].tail) = 0
        /\ h[args[i]].head_type = "local"

RECURSIVE parse_tail(_, _, _, _, _)

\* a parse_tail that stops after the first accessor
parse_tail_first(h, reference, accessors, i, fuel) ==
    IF i > Len(accessors) \/ i > 1 THEN Ret(h, "ok", nullptr)
    ELSE emplace_back(h, reference, accessors[i], fuel)

\* parser::parse_tail on the accessors already parsed, from the i-th on
parse_tail(h, reference, accessors, i, fuel) ==
    IF i > Len(accessors) THEN Ret(h, "ok", nullptr)
    ELSE Only({
        IF e.st # "ok" THEN e
        ELSE parse_tail(e.h, reference, accessors, i + 1, fuel) :
        e \in {emplace_back(h, reference, accessors[i], fuel)}})

\* a parse_reference that stores the reference in result before the tail
parse_reference_stored(h, atom, accessors, fuel) ==
    Only({
        Only({
            IF t.st # "ok" THEN Ret(t.h, t.st, w.v)
            ELSE Only({IF v.st # "ok" THEN Ret(v.h, v.st, w.v) ELSE v :
                       v \in {value(t.h, w.v, fuel)}}) :
            t \in {parse_tail(w.h, w.v, accessors, 1, fuel)}}) :
        w \in {IF IsRef(h, atom) THEN Ret(h, "ok", atom)
               ELSE New(h, json_reference_to(atom))}})

\* parser::parse_reference(result): result is the atom; the pointer handed
\* back is what result holds when it returns or throws
parse_reference(h, atom, accessors, fuel) ==
    Only({
        Only({
            IF t.st # "ok" THEN Ret(t.h, t.st, atom)
            ELSE Only({IF v.st # "ok" THEN Ret(v.h, v.st, atom) ELSE v :
                       v \in {value(t.h, w.v, fuel)}}) :
            t \in {parse_tail(w.h, w.v, accessors, 1, fuel)}}) :
        w \in {IF IsRef(h, atom) THEN Ret(h, "ok", atom)
               ELSE New(h, json_reference_to(atom))}})

----------------------------------------------------------------------------
(* The state machine: the parser's handlers and the library's operations   *)
(* on the values parsed so far                                             *)

Nodes == 1..Len(heap)

\* the literals 0, 1, "a", "b" that every expression of the model is written with
Scalars == {x \in Nodes : ~IsRef(heap, x) /\ heap[x].type \notin {"array_json", "object_json"}}

Ints == {x \in Scalars : heap[x].type = "integer_json"}

Containers == {x \in Nodes : ~IsRef(heap, x) /\ heap[x].type \in {"array_json", "object_json"}}

\* what an expression can be built from: a literal, or a value parsed
\* before and not yet made part of another one
Operands == Scalars \cup free

Seqs(S, n) == UNION {[1..m -> S] : m \in 0..n}

Range(f) == {f[i] : i \in DOMAIN f}

\* the key lists of the objects parsed: by the symmetry of the two keys, the
\* first key is "a"
KeyLists == {ks \in Seqs(Keys, MaxLen) : ks = <<>> \/ ks[1] = "a"}

\* the references an operation of the library can be called on: every
\* reference but the paths inside a set, which the set alone holds
Refs == {r \in Nodes : IsRef(heap, r) /\ \A s \in Nodes : IsSet(heap, s) => r \notin Range(heap[s].list)}

Op(name, r) == [op |-> name, r |-> r]

\* a step is taken only while the heap and every tail stay within bounds
InBounds(h) ==
    /\ Len(h) <= MaxNodes
    /\ \A x \in 1..Len(h) : Len(h[x].tail) <= MaxTail

Room(n) == Len(heap) + n <= MaxNodes

\* a reference atom is parsed: `@`, `$`, a set or a function
Atom == atoms < MaxRefs /\ atoms' = atoms + 1

\* an array or object literal is parsed
Literal == Cardinality(Containers) < MaxContainers /\ UNCHANGED atoms

Init ==
    /\ heap = <<json_integer(0), json_integer(1), json_string("a"), json_string("b")>>
    /\ free = {}
    /\ atoms = 0
    /\ result = nullptr
    /\ thrown = "ok"
    /\ text = ""
    /\ last = Op("none", nullptr)
    /\ enable_symmetric_indexing = FALSE
    /\ enable_negative_indexing = FALSE

Toggles == UNCHANGED <<enable_symmetric_indexing, enable_negative_indexing>>

\* An operation is called while no exception has left an earlier one (the
\* library catches none) and result has not been formatted.  It leaves a
\* heap, what result then holds, the operands it made part of another value
\* and the value it produced.
Done(r, res, used, made, op) ==
    LET pending == ((free \ used) \cup made) \ {x \in 1..Len(r.h) : x \in Scalars}
    IN /\ thrown = "ok"
       /\ last.op # "to_string"
       /\ InBounds(r.h)
       /\ Cardinality(pending) <= MaxPending
       /\ heap' = r.h
       /\ result' = res
       /\ thrown' = r.st
       /\ text' = ""
       /\ free' = pending
       /\ last' = op
       /\ Toggles

\* parse_json on `@` and `$`: json_reference(ref_head_type)
NewReference(ht) ==
    LET n == New(heap, json_reference(ht))
    IN /\ Room(1) /\ Atom
       /\ Done(n, n.v, {}, {n.v}, Op("json_reference", n.v))

RECURSIVE ref_keys(_, _, _, _)

\* parse_accessor on `[k1, k2, ...]` (and parse_set_item on `{[k1], ...}`):
\* one json_reference(accessor) per key, emplace_back(key) on it
ref_keys(h, keys, i, fuel) ==
    IF i > Len(keys) THEN Ret(h, "ok", nullptr)
    ELSE Only({
        IF e.st # "ok" THEN e ELSE ref_keys(e.h, keys, i + 1, fuel) :
        e \in {emplace_back(New(h, json_reference("accessor")).h, Len(h) + 1,
                            keys[i], fuel)}})

\* parse_accessor on a set: the references of the keys, then json_set(ref_keys)
ParseSet(keys) ==
    LET elements == [i \in 1..Len(keys) |-> Len(heap) + i]
    IN /\ Len(keys) > 0
       /\ Room(Len(keys) + 1) /\ Atom
       /\ \A i, j \in 1..Len(keys) : keys[i] \in free /\ keys[i] = keys[j] => i = j
       /\ \E k \in {ref_keys(heap, keys, 1, Fuel)} :
             /\ k.st = "ok"
             /\ \E n \in {New(k.h, json_set(elements))} :
                   Done(n, n.v, Range(keys), {n.v}, Op("json_set", n.v))

\* parse_json / parse_accessor on `name(`: json_function(name) and set_args(args)
NewFunction(name, args) ==
    LET n == New(heap, json_function(name))
        bad == recursive_function(heap, args)
        f == IF bad THEN Ret(n.h, "invalid_argument", n.v)
             ELSE Ret([n.h EXCEPT ![n.v].list = args], "ok", n.v)
    IN /\ Room(1) /\ Atom
       /\ \A i, j \in 1..Len(args) : args[i] \in free /\ args[i] = args[j] => i = j
       /\ Done(f, IF bad THEN result ELSE n.v, Range(args), {n.v},
               Op("json_function", n.v))

\* parse_json on `[`: json_array(children) and touch
ParseArray(children) ==
    /\ Room(1) /\ Literal
    /\ \A i, j \in 1..Len(children) :
          children[i] \in free /\ children[i] = children[j] => i = j
    /\ \E c \in {parse_container(heap, json_array(children), Fuel)} :
          Done(c, c.v, Range(children), {c.v}, Op("json_array", c.v))

\* parse_json on `{`: json_object(children) and touch
ParseObject(ks, children) ==
    /\ Room(1) /\ Literal
    /\ Len(ks) = Len(children)
    /\ \A i, j \in 1..Len(children) :
          children[i] \in free /\ children[i] = children[j] => i = j
    /\ \E c \in {parse_container(heap, json_object(ks, children), Fuel)} :
          Done(c, c.v, Range(children), {c.v}, Op("json_object", c.v))

\* parse_json in dynamic mode after the atom: parse_reference(result)
ParseReference(atom, accessors) ==
    LET w == Len(heap) + 1
    IN /\ Len(accessors) > 0
       /\ IsRef(heap, atom) \/ Room(1)
       /\ UNCHANGED atoms
       /\ atom \notin Range(accessors)
       /\ \A i, j \in 1..Len(accessors) :
             accessors[i] \in free /\ accessors[i] = accessors[j] => i = j
       /\ \E q \in {parse_reference(heap, atom, accessors, Fuel)} :
             \* the reference made for a plain atom is released on return
             \* unless it is what result holds
             \E p \in {IF ~IsRef(heap, atom) /\ q.v # w /\ Len(q.h) = w
                       THEN Ret(SubSeq(q.h, 1, w - 1), q.st, q.v) ELSE q} :
                Done(p, p.v, Range(accessors) \cup {atom}, {p.v},
                     Op("parse_reference", IF IsRef(heap, atom) THEN atom ELSE w))

\* r->set_parent(local)
SetParent(r, local) ==
    /\ IsRef(heap, r)
    /\ r # local
    /\ UNCHANGED atoms
    /\ \E p \in {set_parent(heap, r, local, Fuel)} :
          Done(p, result, {}, {}, Op("set_parent", r))

\* r->set_root(item)
SetRoot(r, item) ==
    /\ IsRef(heap, r)
    /\ r # item
    /\ UNCHANGED atoms
    /\ \E s \in {set_root(heap, r, item, Fuel)} :
          Done(s, result, {}, {}, Op("set_root", r))

\* result->to_string()
ToStringOf ==
    /\ result # nullptr
    /\ last.op # "to_string"
    /\ \E s \in {to_string(heap, result, Fuel)} :
          /\ text' = s.s
          /\ thrown' = s.st
    /\ last' = Op("to_string", result)
    /\ UNCHANGED <<heap, result, free, atoms>> /\ Toggles

Next ==
    \/ \E ht \in {"local", "root"} : NewReference(ht)
    \/ \E keys \in Seqs(Scalars, MaxLen) : ParseSet(keys)
    \/ \E name \in {"size", "min"}, args \in Seqs(Ints \cup free, MaxArgs) :
           NewFunction(name, args)
    \/ \E children \in Seqs(Ints \cup free, MaxLen) : ParseArray(children)
    \/ \E children \in Seqs(Ints \cup free, MaxLen), ks \in KeyLists :
           ParseObject(ks, children)
    \/ \E atom \in free, accessors \in Seqs(Operands, MaxTail) :
           ParseReference(atom, accessors)
    \/ \E r \in Refs, local \in Containers : SetParent(r, local)
    \/ \E r \in Refs, item \in Containers : IsPlainRef(heap, r) /\ SetRoot(r, item)
    \/ ToStringOf

Spec == Init /\ [][Next]_vars

----------------------------------------------------------------------------
(* Properties                                                              *)

\* the front accessor of r is one simplify stops at: a function, or a plain
\* reference whose head is the root
Stalled(h, r) ==
    /\ Len(h[r].tail) > 0
    /\ \/ IsFunction(h, h[r].tail[1])
       \/ IsPlainRef(h, h[r].tail[1]) /\ h[h[r].tail[1]].head_type = "root"

\* x stands for itself: a plain value, or a reference that value() does not
\* look through (a set, a function, a reference with no object head or with
\* accessors pending)
Reduced(h, x) ==
    \/ ~IsPlainRef(h, x)
    \/ h[x].head_type # "object"
    \/ Len(h[x].tail) > 0

\* This step called simplify on the plain reference r and simplify returned
\* normally: set_parent on a local or accessor head, set_root on a root head,
\* emplace_back (from parse_reference) on an object head with nothing pending.
\* The reference parse_reference makes for a plain atom is the next heap cell.
SimplifyReturned(r) ==
    /\ thrown' = "ok"
    /\ last'.r = r
    /\ IF r \in Nodes
       THEN /\ IsPlainRef(heap, r)
            /\ \/ last'.op = "set_parent" /\ heap[r].head_type \in {"local", "accessor"}
               \/ last'.op = "set_root" /\ heap[r].head_type = "root"
               \/ /\ last'.op = "parse_reference"
                  /\ heap[r].head_type = "object"
                  /\ Len(heap[r].tail) = 0
       ELSE last'.op = "parse_reference"

\* C1 as stated: after simplify returns normally on r, (a) r's head is not an
\* object, or (b) r's tail is not empty and its front is a function or a
\* root-headed plain reference, or (c) r.value() is a plain value, no
\* reference.  (A reference parse_reference has released had an object head
\* and an empty tail, and result holds its value().)
C1_SimplifyPostcondition_AsStated ==
    [][\A r \in 1..(Len(heap) + 1) : SimplifyReturned(r) =>
          IF r \in 1..Len(heap')
          THEN \/ heap'[r].head_type # "object"
               \/ Stalled(heap', r)
               \/ LET v == value(heap', r, Fuel) IN v.st = "ok" /\ ~IsRef(v.h, v.v)
          ELSE ~IsRef(heap', result')]_vars

\* C1, amended: after simplify returns normally on r, (a) r's head is not an
\* object, or (b) r's tail is not empty and its front is a function or a
\* root-headed plain reference, or (c) r's tail is empty and r.value(), when
\* it returns, is a plain value or a reference that value() does not look
\* through: a set, a function, or a reference that is still pending.
C1_SimplifyPostcondition ==
    [][\A r \in 1..(Len(heap) + 1) : SimplifyReturned(r) =>
          IF r \in 1..Len(heap')
          THEN \/ heap'[r].head_type # "object"
               \/ Stalled(heap', r)
               \/ /\ Len(heap'[r].tail) = 0
                  /\ LET v == value(heap', r, Fuel)
                     IN v.st = "ok" => Reduced(v.h, v.v)
          ELSE Reduced(heap', result')]_vars

\* set_parent bound `@[k]` to an array and simplify took the accessor: the
\* reference now stands for the integer child
C1_Witness ==
    /\ last.op = "set_parent"
    /\ thrown = "ok"
    /\ IsPlainRef(heap, last.r)
    /\ heap[last.r].head_type = "object"
    /\ Len(heap[last.r].tail) = 0
    /\ heap[heap[last.r].head].type = "integer_json"

RECURSIVE Resolve(_, _, _, _)
RECURSIVE Entries(_, _, _, _)

\* x resolved along the accessors of path from the i-th on, by by(); a
\* reference on the way does not resolve
Resolve(h, x, path, i) ==
    IF i > Len(path) THEN Ret(h, "ok", x)
    ELSE IF IsRef(h, x) \/ IsRef(h, path[i]) THEN Ret(h, "pending", nullptr)
    ELSE LET b == by(h, x, path[i])
         IN IF b.st # "ok" THEN b ELSE Resolve(h, b.v, path, i + 1)

\* the texts of a resolved along the paths of the elements es, from the
\* i-th on, ", " between two of them
Entries(h, a, es, i) ==
    IF i > Len(es) THEN ""
    ELSE (IF i > 1 THEN ", " ELSE "")
         \o to_string(h, Resolve(h, a, h[es[i]].tail, 1).v, Fuel).s
         \o Entries(h, a, es, i + 1)

\* a resolved along the path of every element of es is a value that formats
EntriesFormat(h, a, es) ==
    \A i \in 1..Len(es) :
        to_string(h, Resolve(h, a, h[es[i]].tail, 1).v, Fuel).st = "ok"

\* C2: a set accessor with paths p1..pn applied to a concrete head h, every
\* path resolving on h, yields exactly n entries, the i-th being h resolved
\* along pi, in the order written: the result is the set, its elements are
\* the same n references in the same order, the i-th standing for h resolved
\* along pi, and where every entry formats it formats as `[e1, ..., en]`.
C2_SetProjection ==
    [][\A a \in Containers \cap free, s \in free :
          /\ IsSet(heap, s)
          /\ heap[s].head_type = "accessor"
          /\ \A i \in 1..Len(heap[s].list) :
                Resolve(heap, a, heap[heap[s].list[i]].tail, 1).st = "ok"
          /\ ParseReference(a, <<s>>)
          => /\ thrown' = "ok"
             /\ result' = s
             /\ heap'[s].list = heap[s].list
             /\ \A i \in 1..Len(heap[s].list) :
                   LET e == heap[s].list[i]
                       v == value(heap', e, Fuel)
                   IN /\ v.st = "ok"
                      /\ v.v = Resolve(heap, a, heap[e].tail, 1).v
             /\ EntriesFormat(heap, a, heap[s].list)
                => to_string(heap', s, Fuel) =
                      Str("ok", "[" \o Entries(heap, a, heap[s].list, 1) \o "]")]_vars

\* `[0, 1][1, 0]` was parsed: result is the set, and it formats as `[1, 0]`
C2_Witness ==
    /\ last.op = "parse_reference"
    /\ thrown = "ok"
    /\ IsSet(heap, result)
    /\ Len(heap[result].list) = 2
    /\ to_string(heap, result, Fuel) = Str("ok", "[1, 0]")

\* s is a set not bound yet whose paths all resolve on the container a
ResolvingSet(s, a) ==
    /\ IsSet(heap, s)
    /\ heap[s].head_type = "accessor"
    /\ \A i \in 1..Len(heap[s].list) :
          Resolve(heap, a, heap[heap[s].list[i]].tail, 1).st = "ok"

\* C3 as stated: after set_parent on a set whose elements all resolve, the
\* set's reduced value is a plain array value, not a reference.
C3_SetValue_AsStated ==
    [][\A s \in Refs, a \in Containers :
          ResolvingSet(s, a) /\ SetParent(s, a)
          => LET v == value(heap', s, Fuel)
             IN /\ v.st = "ok"
                /\ ~IsRef(v.h, v.v)
                /\ v.h[v.v].type = "array_json"]_vars

\* C3, amended: after set_parent on a set whose elements all resolve, the
\* set's value() is the set itself, a reference whose head kind is `set`;
\* each of its elements stands for a plain value, and where those values
\* format the set formats as the array of them.
C3_SetValue ==
    [][\A s \in Refs, a \in Containers :
          ResolvingSet(s, a) /\ SetParent(s, a)
          => /\ thrown' = "ok"
             /\ value(heap', s, Fuel) = Ret(heap', "ok", s)
             /\ IsSet(heap', s)
             /\ heap'[s].head_type = "set"
             /\ \A i \in 1..Len(heap'[s].list) :
                   LET v == value(heap', heap'[s].list[i], Fuel)
                   IN v.st = "ok" /\ ~IsRef(v.h, v.v)
             /\ EntriesFormat(heap, a, heap[s].list)
                => to_string(heap', s, Fuel) =
                      Str("ok", "[" \o Entries(heap, a, heap[s].list, 1) \o "]")]_vars

\* set_parent bound a set of two paths to a container: the set has the head
\* kind `set` and both elements stand for integers
C3_Witness ==
    /\ last.op = "set_parent"
    /\ thrown = "ok"
    /\ IsSet(heap, last.r)
    /\ heap[last.r].head_type = "set"
    /\ Len(heap[last.r].list) = 2
    /\ \A i \in 1..2 :
          LET e == heap[last.r].list[i]
          IN /\ heap[e].head_type = "object"
             /\ Len(heap[e].tail) = 0
             /\ heap[heap[e].head].type = "integer_json"

RECURSIVE Pending(_, _, _)

\* the text of the accessors of tail from the i-th on, as they were written:
\* a set bare, every other accessor between brackets
Pending(h, tail, i) ==
    IF i > Len(tail) THEN ""
    ELSE (IF IsSet(h, tail[i]) THEN to_string(h, tail[i], Fuel).s
          ELSE "[" \o to_string(h, tail[i], Fuel).s \o "]")
         \o Pending(h, tail, i + 1)

\* x is an accessor simplify stops at
Stops(h, x) ==
    \/ IsFunction(h, x)
    \/ IsPlainRef(h, x) /\ h[x].head_type = "root"

\* C4: when simplify meets a root-headed plain reference or a function as the
\* front accessor it stops: the head and the entire tail are as they were
\* (the tail is what was pending followed by the accessor appended), no other
\* value changes, value() is the reference itself, and it formats as the head
\* followed by every pending accessor.
C4_SimplifyStops ==
    [][\A a \in free, x \in Operands :
          LET fresh == ~IsRef(heap, a)
              r == IF fresh THEN Len(heap) + 1 ELSE a
              head == IF fresh THEN a ELSE heap[a].head
              tail == IF fresh THEN <<x>> ELSE Append(heap[a].tail, x)
          IN /\ \/ fresh /\ Stops(heap, x)
                \/ IsPlainRef(heap, a) /\ heap[a].head_type = "object"
                   /\ ~IsRef(heap, heap[a].head) /\ Stalled(heap, a)
             /\ ParseReference(a, <<x>>)
             => /\ thrown' = "ok"
                /\ result' = r
                /\ heap'[r].head_type = "object"
                /\ heap'[r].head = head
                /\ heap'[r].tail = tail
                /\ \A n \in Nodes \ {r} : heap'[n] = heap[n]
                /\ to_string(heap, head, Fuel).st = "ok"
                   => to_string(heap', r, Fuel) =
                        Str("ok", to_string(heap, head, Fuel).s \o Pending(heap, tail, 1))]_vars

\* `[0, 1][$.a]` was parsed: result is the reference with the array as its
\* head and `$.a` pending
C4_Witness ==
    /\ last.op = "parse_reference"
    /\ thrown = "ok"
    /\ result = last.r
    /\ IsPlainRef(heap, result)
    /\ heap[result].head_type = "object"
    /\ heap[heap[result].head].type = "array_json"
    /\ Stalled(heap, result)
    /\ to_string(heap, result, Fuel) = Str("ok", "[0, 1][$[\"a\"]]")

\* the child that the accessor k names among the children written for an
\* array (ks is <<>>) or for an object with the keys ks; nullptr when none
Named(h, is_object, ks, children, k) ==
    IF ~is_object /\ h[k].type = "integer_json" /\ h[k].value \in 0..(Len(children) - 1)
    THEN children[h[k].value + 1]
    ELSE IF is_object /\ h[k].type = "string_json" /\ \E j \in 1..Len(ks) : ks[j] = h[k].str
    THEN children[CHOOSE j \in 1..Len(ks) :
                      ks[j] = h[k].str /\ \A l \in 1..Len(ks) : ks[l] = h[k].str => l <= j]
    ELSE nullptr

\* what the path of a `@` child leads to among the children written: the
\* container itself for the bare `@`, else a plain value when the path
\* resolves ("ok")
Target(h, is_object, ks, children, path) ==
    IF Len(path) = 0 THEN Ret(h, "self", nullptr)
    ELSE IF IsRef(h, path[1]) THEN Ret(h, "pending", nullptr)
    ELSE LET x == Named(h, is_object, ks, children, path[1])
         IN IF x = nullptr THEN Ret(h, "out_of_range", nullptr)
            ELSE Resolve(h, x, Tail(path), 1)

\* the child r is a `@`-headed plain reference
LocalChild(r) == IsPlainRef(heap, r) /\ heap[r].head_type = "local"

\* the container c parsed without error from the children: it is a plain
\* array / object, every `@` child is bound, and where the path of a `@`
\* child resolves the slot holds the plain value it leads to (the container
\* for the bare `@`)
Bound(c, is_object, ks, children) ==
    thrown' = "ok" =>
    /\ result' = c
    /\ heap'[c].type = IF is_object THEN "object_json" ELSE "array_json"
    /\ \A i \in 1..Len(children) :
          LET t == Target(heap, is_object, ks, children, heap[children[i]].tail)
          IN LocalChild(children[i]) =>
                /\ heap'[children[i]].head_type = "object"
                /\ t.st = "ok" => heap'[c].list[i] = t.v /\ ~IsRef(heap', t.v)
                /\ t.st = "self" => heap'[c].list[i] = c

Under(h, o, k) == Named(h, TRUE, h[o].keys, h[o].list, k)

\* the object o holds itself under the key s: what a bare `@` child leaves
SelfUnder(h, o, s) == h[o].type = "object_json" /\ Under(h, o, s) = o

Succ(h, x) ==
    Range(h[x].list) \cup Range(h[x].tail)
        \cup (IF h[x].head = nullptr THEN {} ELSE {h[x].head})

RECURSIVE Reach(_, _)

\* the values reachable from those of S
Reach(h, S) ==
    LET T == S \cup UNION {Succ(h, x) : x \in S}
    IN IF T = S THEN S ELSE Reach(h, T)

\* the value graph of x contains a cycle
Cyclic(h, x) == \E n \in Reach(h, {x}) : n \in Reach(h, Succ(h, n))

\* by() failed in this step while parse_reference applied the accessor x to
\* the plain atom
ByFailed(atom, x) ==
    /\ ~IsRef(heap, atom)
    /\ ParseReference(atom, <<x>>)
    /\ thrown' \in {"out_of_range", "invalid_argument"}

C8_DistinctKeys ==
    \A o \in Nodes :
        heap[o].type = "object_json"
        => /\ \A i, j \in 1..Len(heap[o].keys) :
                 heap[o].keys[i] = heap[o].keys[j] => i = j
           /\ Cardinality(DOMAIN heap[o].indexes) = Len(heap[o].list)

\* the child r is a bare `@`
BareLocal(r) == LocalChild(r) /\ Len(heap[r].tail) = 0

C10_CyclicFormatRaises ==
    [][(ToStringOf /\ thrown = "ok" /\ Cyclic(heap, result))
          => thrown' = "runtime_error"]_vars

----------------------------------------------------------------------------
(* The indexing operations called directly on values, under either setting *)
(* of the two toggles: json_tests.cpp ArrayJsonTest and JsonByJsonTest     *)

\* one value of each of the seven plain kinds, and more integers, strings,
\* arrays and objects around them
ByHeap ==
    <<json, json_boolean(TRUE), json_integer(0), json_integer(1),
      json_integer(-1), json_integer(2), json_integer(-3),
      json_real("1.5"), json_string("a"), json_string("c"),
      json_array(<<>>), json_array(<<4, 8>>),
      json_object(<<"a", "b">>, <<4, 11>>)>>

AtIndexes == (0 - MaxIndex)..MaxIndex

Arrays == {x \in Nodes : heap[x].type = "array_json"}

InitBy ==
    /\ heap = ByHeap
    /\ free = {}
    /\ atoms = 0
    /\ result = nullptr
    /\ thrown = "ok"
    /\ text = ""
    /\ last = Op("none", nullptr)
    /\ enable_symmetric_indexing \in BOOLEAN
    /\ enable_negative_indexing \in BOOLEAN

\* res = <call>: res is assigned when the call returns and keeps what it
\* held when the call throws
Assigned(r, op) ==
    /\ last' = op
    /\ result' = IF r.st = "ok" THEN r.v ELSE result
    /\ thrown' = r.st
    /\ UNCHANGED <<heap, text, free, atoms>>

\* res = a->at(index)
ArrayAt(a, index) ==
    /\ Assigned(array_at(heap, a, index), [op |-> "at", r |-> a, item |-> index])
    /\ Toggles

\* res = a->by(item)
JsonBy(a, item) ==
    /\ Assigned(by(heap, a, item), [op |-> "by", r |-> a, item |-> item])
    /\ Toggles

\* json_lib::enable_negative_indexing = b
SetNegativeIndexing(b) ==
    /\ enable_negative_indexing' = b
    /\ UNCHANGED <<heap, result, thrown, text, last, free, atoms,
                   enable_symmetric_indexing>>

\* json_lib::enable_symmetric_indexing = b
SetSymmetricIndexing(b) ==
    /\ enable_symmetric_indexing' = b
    /\ UNCHANGED <<heap, result, thrown, text, last, free, atoms,
                   enable_negative_indexing>>

NextBy ==
    \/ \E a \in Arrays, index \in AtIndexes : ArrayAt(a, index)
    \/ \E a \in Nodes, item \in Nodes : JsonBy(a, item)
    \/ \E b \in BOOLEAN : SetNegativeIndexing(b)
    \/ \E b \in BOOLEAN : SetSymmetricIndexing(b)

SpecBy == InitBy /\ [][NextBy]_vars

\* C11: array.at(i) on an array of size n returns element i for 0 <= i < n;
\* with negative indexing enabled and -n <= i < 0 it returns element n + i;
\* in every other case it raises out-of-range and returns nothing.
C11_ArrayAt ==
    [][\A a \in Arrays, i \in AtIndexes :
          ArrayAt(a, i)
          => LET n == Len(heap[a].list)
             IN /\ (0 <= i /\ i < n)
                   => (thrown' = "ok" /\ result' = heap[a].list[i + 1])
                /\ (enable_negative_indexing /\ 0 - n <= i /\ i < 0)
                   => (thrown' = "ok" /\ result' = heap[a].list[n + i + 1])
                /\ (i >= n \/ i < 0 - n \/ (i < 0 /\ ~enable_negative_indexing))
                   => (thrown' = "out_of_range" /\ result' = result)]_vars

\* at(-1) returned the last element of an array of two
C11_Witness ==
    /\ last.op = "at"
    /\ last.item = -1
    /\ enable_negative_indexing
    /\ Len(heap[last.r].list) = 2
    /\ thrown = "ok"
    /\ result = heap[last.r].list[2]

\* what a.at(i) is specified to give: the element and no error, or the
\* range error
AtOutcome(a, i) ==
    LET n == Len(heap[a].list)
    IN IF 0 <= i /\ i < n THEN Ret(heap, "ok", heap[a].list[i + 1])
       ELSE IF enable_negative_indexing /\ 0 - n <= i /\ i < 0
            THEN Ret(heap, "ok", heap[a].list[n + i + 1])
       ELSE Ret(heap, "out_of_range", nullptr)

\* what o.at(k) is specified to give on an object of distinct keys
KeyOutcome(o, k) ==
    IF \E j \in 1..Len(heap[o].keys) : heap[o].keys[j] = k
    THEN Ret(heap, "ok",
             heap[o].list[CHOOSE j \in 1..Len(heap[o].keys) : heap[o].keys[j] = k])
    ELSE Ret(heap, "out_of_range", nullptr)

\* this step left in result and thrown what the outcome o prescribes
Gave(o) ==
    /\ thrown' = o.st
    /\ result' = IF o.st = "ok" THEN o.v ELSE result

PlainKinds == json_type \ {"reference_json"}

\* C12: with symmetric indexing disabled, A.by(B) succeeds only for
\* (array, integer), giving array.at(int), and for (object, string), giving
\* object.at(key); every other pair of plain kinds raises the domain error,
\* and an index out of range or a missing key in the two accepted pairs
\* raises the range error.
C12_ByAsymmetric ==
    [][\A a \in Nodes, item \in Nodes :
          (JsonBy(a, item) /\ ~enable_symmetric_indexing)
          => IF heap[a].type = "array_json" /\ heap[item].type = "integer_json"
             THEN Gave(AtOutcome(a, heap[item].value))
             ELSE IF heap[a].type = "object_json" /\ heap[item].type = "string_json"
             THEN Gave(KeyOutcome(a, heap[item].str))
             ELSE thrown' = "invalid_argument" /\ result' = result]_vars

\* integer.by(array) raised the domain error while symmetric indexing was
\* disabled
C12_Witness ==
    /\ last.op = "by"
    /\ ~enable_symmetric_indexing
    /\ heap[last.r].type = "integer_json"
    /\ heap[last.item].type = "array_json"
    /\ Len(heap[last.item].list) > heap[last.r].value
    /\ heap[last.r].value >= 0
    /\ thrown = "invalid_argument"

\* C13: with symmetric indexing enabled, i.by(a) has the same outcome as
\* a.at(i) and as a.by(i), and k.by(o) has the same outcome as o.at(k); by
\* on a null, boolean or real left operand still raises the domain error.
C13_BySymmetric ==
    [][\A a \in Nodes, item \in Nodes :
          (JsonBy(a, item) /\ enable_symmetric_indexing)
          => /\ (heap[a].type = "integer_json" /\ heap[item].type = "array_json")
                => /\ Gave(AtOutcome(item, heap[a].value))
                   /\ Gave(array_at(heap, item, heap[a].value))
                   /\ Gave(by(heap, item, a))
             /\ (heap[a].type = "string_json" /\ heap[item].type = "object_json")
                => /\ Gave(KeyOutcome(item, heap[a].str))
                   /\ Gave(object_at(heap, item, heap[a].str))
             /\ heap[a].type \in {"null_json", "boolean_json", "real_json"}
                => (thrown' = "invalid_argument" /\ result' = result)]_vars

\* integer.by(array) returned the element while symmetric indexing was
\* enabled
C13_Witness ==
    /\ last.op = "by"
    /\ enable_symmetric_indexing
    /\ heap[last.r].type = "integer_json"
    /\ heap[last.item].type = "array_json"
    /\ thrown = "ok"
    /\ result = heap[last.item].list[heap[last.r].value + 1]

----------------------------------------------------------------------------
(* The parser on a text: the cursor                                        *)

\* what a scanning step gives back: how it ended, what it read, and the
\* cursor after it
Scan(st, v, pos) == [st |-> st, v |-> v, pos |-> pos]

\* the cursor once the buffer is used up (read_line with no stream open)
exhausted == -1

valid(buffer, pos) == pos >= 0 /\ pos < Len(buffer)

peek(buffer, pos) == SubSeq(buffer, pos + 1, pos + 1)

next(buffer, pos) ==
    IF pos = exhausted \/ pos + 1 >= Len(buffer) THEN exhausted ELSE pos + 1

check_ahead(buffer, pos, expected) ==
    /\ valid(buffer, pos)
    /\ pos + 1 < Len(buffer)
    /\ SubSeq(buffer, pos + 2, pos + 2) = expected

\* std::isspace, std::isdigit, std::isxdigit, std::isalpha over the
\* characters a string of the model can hold (no vertical tab)
isspace(c) == c \in {" ", "\t", "\n", "\r", "\f"}

digit_characters == "0123456789abcdefABCDEF"

isdigit(c) == \E i \in 1..10 : c = SubSeq(digit_characters, i, i)

isxdigit(c) == \E i \in 1..22 : c = SubSeq(digit_characters, i, i)

alpha_characters == "abcdefghijklmnopqrstuvwxyzABCDEFGHIJKLMNOPQRSTUVWXYZ"

isalpha(c) == \E i \in 1..52 : c = SubSeq(alpha_characters, i, i)

RECURSIVE skip_space(_, _)
RECURSIVE skip_line(_, _)
RECURSIVE nonessential(_, _)

\* nonessential's first loop
skip_space(buffer, pos) ==
    IF valid(buffer, pos) /\ isspace(peek(buffer, pos))
    THEN skip_space(buffer, next(buffer, pos))
    ELSE pos

\* nonessential's second loop: the rest of the line, its end included
skip_line(buffer, pos) ==
    IF ~valid(buffer, pos) THEN pos
    ELSE IF peek(buffer, pos) = "\n" THEN next(buffer, pos)
    ELSE skip_line(buffer, next(buffer, pos))

\* a nonessential that skips white space only
nonessential_space(buffer, pos) == skip_space(buffer, pos)

\* parser::nonessential: the cursor after white space and `//` comments
nonessential(buffer, pos) ==
    Only({
        IF valid(buffer, p) /\ peek(buffer, p) = "/" /\ check_ahead(buffer, p, "/")
        THEN nonessential(buffer, skip_line(buffer, p))
        ELSE p :
        p \in {skip_space(buffer, pos)}})

\* parser::separator: v says whether val was met
separator(buffer, pos, val) ==
    Only({
        IF valid(buffer, p) /\ peek(buffer, p) = val
        THEN Scan("ok", TRUE, nonessential(buffer, next(buffer, p)))
        ELSE Scan("ok", FALSE, p) :
        p \in {nonessential(buffer, pos)}})

RECURSIVE parse_keyword(_, _, _)

\* parser::parse_keyword, keyword being what was read so far: called on a
\* letter or `_`
parse_keyword(buffer, pos, keyword) ==
    Only({
        IF valid(buffer, p) /\ (isalpha(peek(buffer, p)) \/ isdigit(peek(buffer, p))
                                 \/ peek(buffer, p) = "_")
        THEN parse_keyword(buffer, p, keyword \o peek(buffer, pos))
        ELSE Scan("ok", keyword \o peek(buffer, pos), p) :
        p \in {next(buffer, pos)}})

----------------------------------------------------------------------------
(* The parser on a text: strings and numbers                               *)

\* the characters with the codes 32..95 and 97..126, in the order of their
\* codes
ascii_characters ==
    " !\"#$%&'()*+,-./0123456789:;<=>?@ABCDEFGHIJKLMNOPQRSTUVWXYZ[\\]^_"

ascii_lower_characters == "abcdefghijklmnopqrstuvwxyz{|}~"

\* std::wstring_convert::to_bytes on a code point of those characters
to_bytes(codepoint) ==
    IF codepoint <= 95 THEN SubSeq(ascii_characters, codepoint - 31, codepoint - 31)
    ELSE SubSeq(ascii_lower_characters, codepoint - 96, codepoint - 96)

\* the number a hexadecimal digit stands for
hex_value(c) ==
    LET i == CHOOSE j \in 1..22 : c = SubSeq(digit_characters, j, j)
    IN IF i <= 16 THEN i - 1 ELSE i - 7

RECURSIVE unicode_escape(_, _, _, _)

\* parse_string's loop over the four digits after `\u`, i of them read so
\* far and codepoint their number: v is the code point, the cursor is left on
\* the last digit
unicode_escape(buffer, pos, i, codepoint) ==
    IF i = 4 THEN Scan("ok", codepoint, pos)
    ELSE Only({
        IF ~valid(buffer, p) \/ ~isxdigit(peek(buffer, p))
        THEN Scan("runtime_error", 0, p)
        ELSE unicode_escape(buffer, p, i + 1,
                            codepoint * 16 + hex_value(peek(buffer, p))) :
        p \in {next(buffer, pos)}})

\* what parse_string's loop is left with: the closing quote or a throw
closing_quote(buffer, pos, so_far) ==
    IF ~valid(buffer, pos) \/ peek(buffer, pos) # "\""
    THEN Scan("runtime_error", "", pos)
    ELSE Scan("ok", so_far, next(buffer, pos))

RECURSIVE string_loop(_, _, _, _)

\* parse_string's do-while loop with the cursor on current: so_far is what
\* was read, is_backslash whether the character before was `\`.  The
\* code points of `\u` are those of ascii_characters; a `\b` and the other
\* code points have no character in the strings of the model ("unmodelled")
string_loop(buffer, pos, so_far, is_backslash) ==
    LET current == peek(buffer, pos)
        p == next(buffer, pos)
    IN IF is_backslash THEN
           IF current \in {"\"", "\\", "/"} THEN
               IF valid(buffer, p) THEN string_loop(buffer, p, so_far \o current, FALSE)
               ELSE closing_quote(buffer, p, so_far \o current)
           ELSE IF current \in {"f", "n", "r", "t"} THEN
               LET control == CASE current = "f" -> "\f"
                                [] current = "n" -> "\n"
                                [] current = "r" -> "\r"
                                [] current = "t" -> "\t"
               IN IF valid(buffer, p) THEN string_loop(buffer, p, so_far \o control, FALSE)
                  ELSE closing_quote(buffer, p, so_far \o control)
           ELSE IF current = "u" THEN
               Only({
                   IF u.st # "ok" THEN Scan(u.st, "", u.pos)
                   ELSE IF u.v \notin (32..95) \cup (97..126)
                   THEN Scan("unmodelled", "", u.pos)
                   ELSE IF valid(buffer, next(buffer, u.pos))
                   THEN string_loop(buffer, next(buffer, u.pos),
                                    so_far \o to_bytes(u.v),
                                    FALSE)
                   ELSE closing_quote(buffer, next(buffer, u.pos),
                                      so_far \o to_bytes(u.v)) :
                   u \in {unicode_escape(buffer, pos, 0, 0)}})
           ELSE IF current = "b" THEN Scan("unmodelled", "", pos)
           ELSE Scan("runtime_error", "", pos)
       ELSE IF current = "\\" THEN
           IF valid(buffer, p) THEN string_loop(buffer, p, so_far, TRUE)
           ELSE closing_quote(buffer, p, so_far)
       ELSE IF current = "\"" THEN closing_quote(buffer, pos, so_far)
       ELSE IF valid(buffer, p) THEN string_loop(buffer, p, so_far \o current, FALSE)
       ELSE closing_quote(buffer, p, so_far)

\* a parse_string that takes every character as it is written
parse_string_raw(buffer, pos) ==
    LET close == CHOOSE i \in (pos + 1)..(Len(buffer) + 1) :
                     i > Len(buffer) \/ peek(buffer, i) = "\""
    IN IF close > Len(buffer) THEN Scan("runtime_error", "", exhausted)
       ELSE Scan("ok", SubSeq(buffer, pos + 2, close), next(buffer, close))

\* parser::parse_string, called on the opening quote.  When the quote is the
\* last character of the text the loop reads the emptied buffer out of its
\* bounds: "undefined"
parse_string(buffer, pos) ==
    IF ~valid(buffer, next(buffer, pos)) THEN Scan("undefined", "", exhausted)
    ELSE string_loop(buffer, next(buffer, pos), "", FALSE)

RECURSIVE digits(_, _, _)

\* parse_number's loops over digits: number with the digits at the cursor
digits(buffer, pos, number) ==
    IF valid(buffer, pos) /\ isdigit(peek(buffer, pos))
    THEN digits(buffer, next(buffer, pos), number \o peek(buffer, pos))
    ELSE Scan("ok", number, pos)

\* parse_number from the exponent on
number_exponent(buffer, pos, number, is_float) ==
    IF valid(buffer, pos) /\ peek(buffer, pos) \in {"e", "E"}
    THEN Only({
             IF ~valid(buffer, s.pos) \/ ~isdigit(peek(buffer, s.pos))
             THEN Scan("runtime_error", <<"", FALSE>>, s.pos)
             ELSE Only({Scan("ok", <<d.v, TRUE>>, d.pos) :
                        d \in {digits(buffer, s.pos, s.v)}}) :
             s \in {IF valid(buffer, next(buffer, pos))
                       /\ peek(buffer, next(buffer, pos)) \in {"+", "-"}
                    THEN Scan("ok", number \o peek(buffer, pos)
                                       \o peek(buffer, next(buffer, pos)),
                              next(buffer, next(buffer, pos)))
                    ELSE Scan("ok", number \o peek(buffer, pos), next(buffer, pos))}})
    ELSE Scan("ok", <<number, is_float>>, pos)

\* parse_number from the fraction on
number_fraction(buffer, pos, number) ==
    IF valid(buffer, pos) /\ peek(buffer, pos) = "."
    THEN IF ~valid(buffer, next(buffer, pos))
            \/ ~isdigit(peek(buffer, next(buffer, pos)))
         THEN Scan("runtime_error", <<"", FALSE>>, next(buffer, pos))
         ELSE Only({number_exponent(buffer, d.pos, d.v, TRUE) :
                    d \in {digits(buffer, next(buffer, pos), number \o ".")}})
    ELSE number_exponent(buffer, pos, number, FALSE)

\* parse_number from the integer part on
number_integer(buffer, pos, number) ==
    IF valid(buffer, pos) /\ peek(buffer, pos) = "0"
    THEN IF valid(buffer, next(buffer, pos)) /\ isdigit(peek(buffer, next(buffer, pos)))
         THEN Scan("runtime_error", <<"", FALSE>>, next(buffer, pos))
         ELSE number_fraction(buffer, next(buffer, pos), number \o "0")
    ELSE IF valid(buffer, pos) /\ isdigit(peek(buffer, pos))
    THEN Only({number_fraction(buffer, d.pos, d.v) :
               d \in {digits(buffer, pos, number)}})
    ELSE Scan("runtime_error", <<"", FALSE>>, pos)

\* a parse_number that takes any run of digits as the integer part
parse_number_zeros(buffer, pos) ==
    Only({
        Only({
            IF d.v = (IF valid(buffer, p) /\ peek(buffer, p) = "-" THEN "-" ELSE "")
            THEN Scan("runtime_error", <<"", FALSE>>, d.pos)
            ELSE number_fraction(buffer, d.pos, d.v) :
            d \in {IF valid(buffer, p) /\ peek(buffer, p) = "-"
                   THEN digits(buffer, next(buffer, p), "-")
                   ELSE digits(buffer, p, "")}}) :
        p \in {nonessential(buffer, pos)}})

\* parser::parse_number: v is <<number, is_float>>
parse_number(buffer, pos) ==
    Only({
        IF valid(buffer, p) /\ peek(buffer, p) = "-"
        THEN number_integer(buffer, next(buffer, p), "-")
        ELSE number_integer(buffer, p, "") :
        p \in {nonessential(buffer, pos)}})

----------------------------------------------------------------------------
(* The parser on a text: the numbers' conversions                          *)

INT_MAX == 2147483647

\* the number a decimal digit stands for
digit_value(c) == (CHOOSE j \in 1..10 : c = SubSeq(digit_characters, j, j)) - 1

RECURSIVE stoi_digits(_, _, _, _)

\* std::stoi's accumulation over the digits of number from the i-th on,
\* magnitude being the digits before them: out of range once the magnitude
\* leaves the int range (INT_MAX, and INT_MAX + 1 when negative)
stoi_digits(number, i, magnitude, negative) ==
    IF i > Len(number) THEN [st |-> "ok", v |-> IF negative THEN 0 - magnitude ELSE magnitude]
    ELSE LET d == digit_value(SubSeq(number, i, i))
         IN IF magnitude > (INT_MAX - d) \div 10
            THEN IF negative /\ i = Len(number) /\ magnitude = INT_MAX \div 10 /\ d = 8
                 THEN [st |-> "ok", v |-> 0 - INT_MAX - 1]
                 ELSE [st |-> "out_of_range", v |-> 0]
            ELSE stoi_digits(number, i + 1, magnitude * 10 + d, negative)

\* std::stoi on a text parse_number gave as an integer
stoi(number) ==
    IF SubSeq(number, 1, 1) = "-" THEN stoi_digits(number, 2, 0, TRUE)
    ELSE stoi_digits(number, 1, 0, FALSE)

\* the first position of number from i on that holds one of the characters
\* cs, Len(number) + 1 when none does
find(number, cs, i) ==
    CHOOSE j \in i..(Len(number) + 1) :
        /\ j > Len(number) \/ SubSeq(number, j, j) \in cs
        /\ \A k \in i..(j - 1) : SubSeq(number, k, k) \notin cs

RECURSIVE below(_, _, _)

\* the digits ds, read as 0.ds, are less than the digits limit read so, from
\* the i-th digit on
below(ds, limit, i) ==
    IF i > Len(limit) THEN FALSE
    ELSE LET d == IF i > Len(ds) THEN 0 ELSE digit_value(SubSeq(ds, i, i))
             l == digit_value(SubSeq(limit, i, i))
         IN d < l \/ (d = l /\ below(ds, limit, i + 1))

\* the float range in decimal digits: FLT_MAX is 3.4028235e38 (what rounds
\* to it stays below 3.40282357e38) and FLT_MIN is 1.17549435e-38
FLT_MAX_10_EXP == 38

FLT_MIN_10_EXP == -38

\* std::stof's range check on a text parse_number gave as a real: the text
\* is out of range when its magnitude is above FLT_MAX or is not zero and
\* below FLT_MIN.  ds are the digits before the exponent, sign and point
\* taken out, x is the exponent written (out of range when it is no int),
\* order the decimal exponent of the first digit that is not zero
stof_in_range(number) ==
    LET from == IF SubSeq(number, 1, 1) = "-" THEN 2 ELSE 1
        e == find(number, {"e", "E"}, 1)
        point == find(number, {"."}, 1)
        ds == IF point < e
              THEN SubSeq(number, from, point - 1) \o SubSeq(number, point + 1, e - 1)
              ELSE SubSeq(number, from, e - 1)
        integer_digits == (IF point < e THEN point ELSE e) - from
        zeros == find(ds, {"1", "2", "3", "4", "5", "6", "7", "8", "9"}, 1) - 1
        significant == SubSeq(ds, zeros + 1, Len(ds))
        x == IF e > Len(number) THEN [st |-> "ok", v |-> 0]
             ELSE IF SubSeq(number, e + 1, e + 1) = "+"
             THEN stoi(SubSeq(number, e + 2, Len(number)))
             ELSE stoi(SubSeq(number, e + 1, Len(number)))
        order == integer_digits - 1 - zeros + x.v
    IN \/ zeros = Len(ds)
       \/ /\ x.st = "ok"
          /\ x.v < 1000 /\ x.v > -1000
          /\ \/ order < FLT_MAX_10_EXP
             \/ order = FLT_MAX_10_EXP /\ below(significant, "340282357", 1)
          /\ \/ order > FLT_MIN_10_EXP
             \/ order = FLT_MIN_10_EXP /\ ~below(significant, "117549435", 1)

----------------------------------------------------------------------------
(* The parser on a text: expressions                                       *)

\* what a parsing function gives back: the heap it leaves, how it ended,
\* the pointer it stored (nullptr when none) and the cursor after it
Parsed(h, st, v, pos) == [h |-> h, st |-> st, v |-> v, pos |-> pos]

\* a throw_message: std::runtime_error
Throw(h, pos) == Parsed(h, "runtime_error", nullptr, pos)

RECURSIVE parse_json(_, _, _, _, _)
RECURSIVE parse_atom(_, _, _, _, _)
RECURSIVE collection_loop(_, _, _, _, _, _, _, _, _, _)
RECURSIVE parse_accessor(_, _, _, _)
RECURSIVE parse_tail_at(_, _, _, _, _)

\* parser::parse_array_item: v is the pair of no key and the child
parse_array_item(buffer, pos, h, dynamic, fuel) ==
    Only({Parsed(j.h, j.st, <<"", j.v>>, j.pos) :
          j \in {parse_json(buffer, pos, h, dynamic, fuel)}})

\* parser::parse_object_item: v is the pair of the key and the child
parse_object_item(buffer, pos, h, dynamic, fuel) ==
    IF ~valid(buffer, pos) \/ peek(buffer, pos) # "\"" THEN Throw(h, pos)
    ELSE Only({
        IF k.st # "ok" THEN Parsed(h, k.st, nullptr, k.pos)
        ELSE Only({
            IF ~s.v THEN Throw(h, s.pos)
            ELSE Only({Parsed(j.h, j.st, <<k.v, j.v>>, j.pos) :
                       j \in {parse_json(buffer, s.pos, h, dynamic, fuel)}}) :
            s \in {separator(buffer, k.pos, ":")}}) :
        k \in {parse_string(buffer, pos)}})

\* parser::parse_set_item: v is the pair of no key and the path
parse_set_item(buffer, pos, h, fuel) ==
    LET tail == Len(h) + 1
    IN Only({
        IF t.st # "ok" THEN t
        ELSE IF Len(t.h[tail].tail) = 0 THEN Throw(t.h, t.pos)
        ELSE Parsed(t.h, "ok", <<"", tail>>, t.pos) :
        t \in {parse_tail_at(buffer, pos, New(h, json_reference("accessor")).h,
                             tail, fuel)}})

\* a collection loop that goes on only after a separator
collection_loop_separated(buffer, pos, h, dynamic, halt, element, ks, children, closed, fuel) ==
    IF valid(buffer, pos) /\ peek(buffer, pos) # halt
       /\ (closed => Len(children) = 0)
    THEN collection_loop(buffer, pos, h, dynamic, halt, element, ks, children,
                         closed, fuel)
    ELSE IF ~closed THEN Throw(h, pos)
    ELSE IF ~valid(buffer, pos) \/ peek(buffer, pos) # halt THEN Throw(h, pos)
    ELSE Parsed(h, "ok", <<ks, children>>, next(buffer, pos))

\* parse_collection's loop and what follows it, with the keys ks and the
\* children read so far: v is the pair of all keys and all children
collection_loop(buffer, pos, h, dynamic, halt, element, ks, children, closed, fuel) ==
    IF valid(buffer, pos) /\ peek(buffer, pos) # halt
    THEN Only({
        IF e.st # "ok" THEN Parsed(e.h, e.st, nullptr, e.pos)
        ELSE Only({
            collection_loop(buffer, s.pos, e.h, dynamic, halt, element,
                            Append(ks, e.v[1]), Append(children, e.v[2]),
                            ~s.v, fuel) :
            s \in {separator(buffer, e.pos, ",")}}) :
        e \in {CASE element = "array_item" ->
                        parse_array_item(buffer, pos, h, dynamic, fuel)
                 [] element = "object_item" ->
                        parse_object_item(buffer, pos, h, dynamic, fuel)
                 [] element = "set_item" ->
                        parse_set_item(buffer, pos, h, fuel)}})
    ELSE IF ~closed THEN Throw(h, pos)
    ELSE IF ~valid(buffer, pos) \/ peek(buffer, pos) # halt THEN Throw(h, pos)
    ELSE Parsed(h, "ok", <<ks, children>>, next(buffer, pos))

\* parser::parse_collection
parse_collection(buffer, pos, h, dynamic, halt, element, fuel) ==
    collection_loop(buffer, nonessential(buffer, pos), h, dynamic, halt,
                    element, <<>>, <<>>, TRUE, fuel)

\* a set_args that stores nothing
set_args_none(h, function, args) ==
    IF recursive_function(h, args) THEN Ret(h, "invalid_argument", function)
    ELSE Ret(h, "ok", function)

\* a set_args that takes every argument
set_args_any(h, function, args) ==
    Ret([h EXCEPT ![function].list = args], "ok", function)

\* json_function::set_args
set_args(h, function, args) ==
    IF recursive_function(h, args) THEN Ret(h, "invalid_argument", function)
    ELSE Ret([h EXCEPT ![function].list = args], "ok", function)

\* parse_json and parse_accessor on `keyword(`, the cursor after the
\* bracket: json_function(keyword) and set_args of the collection parsed
parse_function(buffer, pos, h, keyword, fuel) ==
    LET function == Len(h) + 1
    IN Only({
        IF c.st # "ok" THEN c
        ELSE Only({Parsed(a.h, a.st, IF a.st = "ok" THEN function ELSE nullptr,
                          c.pos) :
                   a \in {set_args(c.h, function, c.v[2])}}) :
        c \in {parse_collection(buffer, pos, New(h, json_function(keyword)).h,
                                TRUE, ")", "array_item", fuel)}})

\* parser::parse_accessor: v is the accessor, nullptr when it returns false
parse_accessor(buffer, pos, h, fuel) ==
    Only({
        IF ~valid(buffer, p) THEN Parsed(h, "ok", nullptr, p)
        ELSE IF peek(buffer, p) = "." THEN
            IF ~valid(buffer, next(buffer, p))
            THEN Parsed(h, "undefined", nullptr, exhausted)
            ELSE IF ~isalpha(peek(buffer, next(buffer, p)))
                    /\ peek(buffer, next(buffer, p)) # "_"
            THEN Throw(h, next(buffer, p))
            ELSE Only({
                IF valid(buffer, k.pos) /\ peek(buffer, k.pos) = "("
                THEN parse_function(buffer, next(buffer, k.pos), h, k.v, fuel)
                ELSE Parsed(New(h, json_string(k.v)).h, "ok", Len(h) + 1, k.pos) :
                k \in {parse_keyword(buffer, next(buffer, p), "")}})
        ELSE IF peek(buffer, p) = "[" THEN
            Only({
                IF c.st # "ok" THEN c
                ELSE IF Len(c.v[2]) = 1 THEN Parsed(c.h, "ok", c.v[2][1], c.pos)
                ELSE Only({
                    IF r.st # "ok" THEN Parsed(r.h, r.st, nullptr, c.pos)
                    ELSE Parsed(New(r.h, json_set([i \in 1..Len(c.v[2]) |->
                                                      Len(c.h) + i])).h,
                                "ok", Len(r.h) + 1, c.pos) :
                    r \in {ref_keys(c.h, c.v[2], 1, fuel)}}) :
                c \in {parse_collection(buffer, next(buffer, p), h, TRUE, "]",
                                        "array_item", fuel)}})
        ELSE IF peek(buffer, p) = "{" THEN
            Only({
                IF c.st # "ok" THEN c
                ELSE Parsed(New(c.h, json_set(c.v[2])).h, "ok", Len(c.h) + 1, c.pos) :
                c \in {parse_collection(buffer, next(buffer, p), h, TRUE, "}",
                                        "set_item", fuel)}})
        ELSE Parsed(h, "ok", nullptr, p) :
        p \in {nonessential(buffer, pos)}})

\* parser::parse_tail on the text at the cursor
parse_tail_at(buffer, pos, h, reference, fuel) ==
    Only({
        IF a.st # "ok" \/ a.v = nullptr THEN a
        ELSE Only({
            IF e.st # "ok" THEN Parsed(e.h, e.st, nullptr, a.pos)
            ELSE parse_tail_at(buffer, a.pos, e.h, reference, fuel) :
            e \in {emplace_back(a.h, reference, a.v, fuel)}}) :
        a \in {parse_accessor(buffer, pos, h, fuel)}})

\* parser::parse_reference(result) on the text at the cursor
parse_reference_at(buffer, pos, h, atom, fuel) ==
    Only({
        Only({
            IF t.st # "ok" THEN Parsed(t.h, t.st, atom, t.pos)
            ELSE Only({Parsed(v.h, v.st, IF v.st = "ok" THEN v.v ELSE atom, t.pos) :
                       v \in {value(t.h, w.v, fuel)}}) :
            t \in {parse_tail_at(buffer, pos, w.h, w.v, fuel)}}) :
        w \in {IF IsRef(h, atom) THEN Ret(h, "ok", atom)
               ELSE New(h, json_reference_to(atom))}})

\* parse_json's branches on the first character of an expression
parse_atom(buffer, pos, h, dynamic, fuel) ==
    LET c == peek(buffer, pos)
        made == Len(h) + 1
    IN IF dynamic /\ c = "@"
       THEN Parsed(New(h, json_reference("local")).h, "ok", made, next(buffer, pos))
       ELSE IF dynamic /\ c = "$"
       THEN Parsed(New(h, json_reference("root")).h, "ok", made, next(buffer, pos))
       ELSE IF isalpha(c) \/ c = "_" THEN
           Only({
               IF k.v = "true"
               THEN Parsed(New(h, json_boolean(TRUE)).h, "ok", made, k.pos)
               ELSE IF k.v = "false"
               THEN Parsed(New(h, json_boolean(FALSE)).h, "ok", made, k.pos)
               ELSE IF k.v = "null" THEN Parsed(New(h, json).h, "ok", made, k.pos)
               ELSE IF dynamic THEN
                   IF valid(buffer, k.pos) /\ peek(buffer, k.pos) = "("
                   THEN parse_function(buffer, next(buffer, k.pos), h, k.v, fuel)
                   ELSE Only({Parsed(e.h, e.st, made, k.pos) :
                              e \in {emplace_back(
                                         New(New(h, json_reference("root")).h,
                                             json_string(k.v)).h,
                                         made, made + 1, fuel)}})
               ELSE Throw(h, k.pos) :
               k \in {parse_keyword(buffer, pos, "")}})
       ELSE IF c = "-" \/ isdigit(c) THEN
           Only({
               IF n.st # "ok" THEN Parsed(h, n.st, nullptr, n.pos)
               ELSE IF n.v[2] THEN
                   IF stof_in_range(n.v[1])
                   THEN Parsed(New(h, json_real(n.v[1])).h, "ok", made, n.pos)
                   ELSE Parsed(h, "out_of_range", nullptr, n.pos)
               ELSE IF stoi(n.v[1]).st = "ok"
               THEN Parsed(New(h, json_integer(stoi(n.v[1]).v)).h, "ok", made, n.pos)
               ELSE Parsed(h, "out_of_range", nullptr, n.pos) :
               n \in {parse_number(buffer, pos)}})
       ELSE IF c = "\"" THEN
           Only({
               IF s.st # "ok" THEN Parsed(h, s.st, nullptr, s.pos)
               ELSE Parsed(New(h, json_string(s.v)).h, "ok", made, s.pos) :
               s \in {parse_string(buffer, pos)}})
       ELSE IF c \in {"[", "{"} THEN
           Only({
               IF e.st # "ok" THEN e
               ELSE Only({Parsed(n.h, n.st, n.v, e.pos) :
                          n \in {parse_container(
                                     e.h,
                                     IF c = "[" THEN json_array(e.v[2])
                                     ELSE json_object(e.v[1], e.v[2]),
                                     fuel)}}) :
               e \in {parse_collection(buffer, next(buffer, pos), h, dynamic,
                                       IF c = "[" THEN "]" ELSE "}",
                                       IF c = "[" THEN "array_item" ELSE "object_item",
                                       fuel)}})
       ELSE IF dynamic /\ c = "(" THEN
           Only({
               IF j.st # "ok" THEN j
               ELSE Only({
                   IF ~valid(buffer, p) \/ peek(buffer, p) # ")" THEN Throw(j.h, p)
                   ELSE Parsed(j.h, "ok", j.v, next(buffer, p)) :
                   p \in {nonessential(buffer, j.pos)}}) :
               j \in {parse_json(buffer, next(buffer, pos), h, dynamic, fuel)}})
       ELSE Throw(h, pos)

\* parser::parse_json: v is what result holds, nullptr when it is left empty
parse_json(buffer, pos, h, dynamic, fuel) ==
    Only({
        IF ~valid(buffer, p) THEN Parsed(h, "ok", nullptr, p)
        ELSE Only({
            IF a.st # "ok" \/ ~dynamic THEN a
            ELSE parse_reference_at(buffer, a.pos, a.h, a.v, fuel) :
            a \in {parse_atom(buffer, p, h, dynamic, fuel)}}) :
        p \in {nonessential(buffer, pos)}})

\* a completely_parse_json that does not look at what follows the expression
parse_json_only(buffer, h, dynamic, fuel) ==
    Only({
        IF j.st # "ok" THEN j
        ELSE IF j.v = nullptr THEN Throw(j.h, j.pos)
        ELSE j :
        j \in {parse_json(buffer, 0, h, dynamic, fuel)}})

\* parser::completely_parse_json on a parser made of the text buffer
completely_parse_json(buffer, h, dynamic, fuel) ==
    Only({
        IF j.st # "ok" THEN j
        ELSE Only({
            IF j.v = nullptr THEN Throw(j.h, p)
            ELSE IF valid(buffer, p) THEN Parsed(j.h, "runtime_error", j.v, p)
            ELSE Parsed(j.h, "ok", j.v, p) :
            p \in {nonessential(buffer, j.pos)}}) :
        j \in {parse_json(buffer, 0, h, dynamic, fuel)}})

----------------------------------------------------------------------------
(* Parsing a text, formatting the value, parsing its text again            *)

RECURSIVE Joined(_, _, _)
RECURSIVE Pieces(_)

\* the texts ts from the i-th on, sep between two of them
Joined(ts, sep, i) ==
    IF i > Len(ts) THEN ""
    ELSE (IF i > 1 THEN sep ELSE "") \o ts[i] \o Joined(ts, sep, i + 1)

\* what a string literal is written with: a letter, a slash, a line feed
\* written as it is, and the escapes of the quote, the backslash, the slash,
\* the line feed, the tab and the code point of the quote
StringPieces ==
    {"a", "/", "\n", "\\\"", "\\\\", "\\/", "\\n", "\\t", "\\u0022"}

\* the texts of at most n pieces
Pieces(n) ==
    IF n = 0 THEN {""}
    ELSE Pieces(n - 1) \cup {s \o p : s \in Pieces(n - 1), p \in StringPieces}

\* the string literals of at most n pieces
Quoted(n) == {"\"" \o s \o "\"" : s \in Pieces(n)}

\* the texts parsed: keywords and numbers, string literals, arrays of items,
\* objects of entries under every key of at most one piece, and containers
\* nested in containers
RoundTripTexts ==
    LET scalars == {"null", "true", "false", "0", "-0", "-7", "12", "1.50",
                    "-2e3", "0.0E-1"}
        items == {"null", "-7", "1.50", "\"a\"", "\"\\\"\"", "[]", "{}"}
        values == {"12", "\"\\n\"", "[false]"}
        arrays == {"[" \o Joined(ts, ", ", 1) \o "]" : ts \in Seqs(items, MaxItems)}
        entries == {k \o ": " \o v : k \in Quoted(1), v \in values}
        objects == {"{" \o Joined(ts, ", ", 1) \o "}" : ts \in Seqs(entries, MaxItems)}
        nested == {"[" \o c \o "]" : c \in arrays}
                      \cup {"{\"a\": " \o c \o ", \"a\": [" \o c \o "]}" : c \in arrays}
    IN scalars \cup Quoted(MaxPieces) \cup arrays \cup objects \cup nested

\* a parser is made of a text
InitText(texts) ==
    /\ text \in texts
    /\ heap = <<>>
    /\ free = {}
    /\ atoms = 0
    /\ result = nullptr
    /\ thrown = "ok"
    /\ last = Op("none", nullptr)
    /\ enable_symmetric_indexing = FALSE
    /\ enable_negative_indexing = FALSE

\* parser(text).completely_parse_json(result, dynamic), result empty before:
\* the values of the parse before are released
ParseText(dynamic) ==
    /\ last.op \in {"none", "to_string"}
    /\ thrown = "ok"
    /\ \E j \in {completely_parse_json(text, <<>>, dynamic, Fuel)} :
          /\ last' = Op(IF dynamic THEN "parse_dynamic" ELSE "parse", j.v)
          /\ heap' = j.h
          /\ result' = j.v
          /\ thrown' = j.st
    /\ UNCHANGED <<text, free, atoms>> /\ Toggles

InitRoundTrip == InitText(RoundTripTexts)

NextRoundTrip == ParseText(FALSE) \/ ToStringOf

SpecRoundTrip == InitRoundTrip /\ [][NextRoundTrip]_vars

RECURSIVE Same(_, _, _, _)

\* the value x of the heap h1 and the value y of the heap h2 are equal in
\* shape, key names, order and scalar content
Same(h1, x, h2, y) ==
    /\ h1[x].type = h2[y].type
    /\ h1[x].value = h2[y].value
    /\ h1[x].str = h2[y].str
    /\ h1[x].keys = h2[y].keys
    /\ Len(h1[x].list) = Len(h2[y].list)
    /\ \A i \in 1..Len(h1[x].list) : Same(h1, h1[x].list[i], h2, h2[y].list[i])

\* C14: for every value v obtained by parsing a text in strict mode, parsing
\* format(v) in strict mode succeeds and yields a value equal to v in shape,
\* key names, order and scalar content.
C14_RoundTrip ==
    [][(last.op = "to_string" /\ thrown = "ok" /\ ParseText(FALSE))
          => /\ thrown' = "ok"
             /\ result' # nullptr
             /\ Same(heap, result, heap', result')]_vars

----------------------------------------------------------------------------
(* Parsing the texts of numbers                                            *)

RECURSIVE Strings(_, _)

\* the texts of at most n of the characters cs
Strings(cs, n) ==
    IF n = 0 THEN {""}
    ELSE Strings(cs, n - 1) \cup {s \o c : s \in Strings(cs, n - 1), c \in cs}

\* the characters numbers are written with
NumberCharacters == {"0", "1", "2", "3", "-", "+", ".", "e", "E"}

InitNumber == InitText(Strings(NumberCharacters, MaxNumber))

\* auto [number, is_float] = parser(text).parse_number()
ParseNumber ==
    /\ last.op = "none"
    /\ \E n \in {parse_number(text, 0)} :
          /\ last' = [op |-> "parse_number", r |-> n.v, pos |-> n.pos]
          /\ thrown' = n.st
    /\ UNCHANGED <<heap, result, text, free, atoms>> /\ Toggles

NextNumber == ParseNumber \/ ParseText(FALSE) \/ ToStringOf

SpecNumber == InitNumber /\ [][NextNumber]_vars

\* the i-th character of t, no character when t has none
At(t, i) == IF i >= 1 /\ i <= Len(t) THEN SubSeq(t, i, i) ELSE ""

\* the characters a..b of t are digits, one at least
AreDigits(t, a, b) ==
    a <= b /\ \A i \in a..b : isdigit(At(t, i))

\* t is of the number grammar: an optional `-`, a single `0` or a digit that
\* is not `0` followed by digits (up to p), optionally `.` and digits (up to
\* q), optionally `e` or `E`, an optional sign and digits; real says
\* whether it has a fraction or an exponent
NumberForm(t, real) ==
    LET n == Len(t)
        s == IF At(t, 1) = "-" THEN 1 ELSE 0
    IN \E p \in (s + 1)..n, q \in (s + 1)..n :
          /\ p <= q
          /\ AreDigits(t, s + 1, p)
          /\ p = s + 1 \/ At(t, s + 1) # "0"
          /\ q = p \/ (At(t, p + 1) = "." /\ AreDigits(t, p + 2, q))
          /\ \/ q = n
             \/ /\ At(t, q + 1) \in {"e", "E"}
                /\ \/ AreDigits(t, q + 2, n)
                   \/ At(t, q + 2) \in {"+", "-"} /\ AreDigits(t, q + 3, n)
          /\ real <=> (q > p \/ n > q)

\* C15: for every text s that the number grammar accepts as a real and that
\* fits the float range, parsing s yields a real whose formatted output is
\* exactly s, character for character.
C15_RealText ==
    [][/\ (last.op = "none" /\ NumberForm(text, TRUE) /\ stof_in_range(text)
           /\ ParseText(FALSE))
          => /\ thrown' = "ok"
             /\ result' # nullptr
             /\ heap'[result'].type = "real_json"
             /\ to_string(heap', result', Fuel) = Str("ok", text)
       /\ (last.op = "parse" /\ thrown = "ok" /\ heap[result].type = "real_json"
           /\ ToStringOf)
          => thrown' = "ok" /\ text' = text]_vars

\* `-3E-2` was parsed as a real and formatted: the output is `-3E-2`
C15_Witness ==
    /\ last.op = "to_string"
    /\ thrown = "ok"
    /\ heap[result].type = "real_json"
    /\ text = "-3E-2"

----------------------------------------------------------------------------
(* Parsing texts of white space, comments and expressions                  *)

\* white space, the characters of a `//` comment and its end, and those of
\* the expressions `1`, `11`, `[1]`, `[]`, ...
SpaceCharacters == {" ", "\n", "/", "1", "[", "]"}

InitSpace == InitText(Strings(SpaceCharacters, MaxText))

NextSpace == ParseText(FALSE) \/ ParseText(TRUE) \/ ToStringOf

SpecSpace == InitSpace /\ [][NextSpace]_vars

RECURSIVE OnlyNonessential(_, _)

\* t holds from its i-th character on nothing but white space and `//`
\* comments, each up to the end of its line or of the text
OnlyNonessential(t, i) ==
    IF i > Len(t) THEN TRUE
    ELSE IF isspace(At(t, i)) THEN OnlyNonessential(t, i + 1)
    ELSE IF At(t, i) = "/" /\ At(t, i + 1) = "/"
    THEN LET end == CHOOSE j \in (i + 2)..(Len(t) + 1) :
                        /\ j > Len(t) \/ At(t, j) = "\n"
                        /\ \A k \in (i + 2)..(j - 1) : At(t, k) # "\n"
         IN OnlyNonessential(t, end + 1)
    ELSE FALSE

\* e is one complete expression: parse_json stores a value and uses e up
Expression(e, dynamic) ==
    \E j \in {parse_json(e, 0, <<>>, dynamic, Fuel)} :
        j.st = "ok" /\ j.v # nullptr /\ ~valid(e, j.pos)

\* C16: completely_parse_json raises a parse error when the input is empty
\* or holds only nonessential characters, leaving the result empty, and when
\* a significant character remains after one complete expression and its
\* trailing nonessential; it returns normally only when exactly one
\* expression covers all significant input.
C16_ParseAll ==
    [][\A dynamic \in BOOLEAN :
          (last.op = "none" /\ ParseText(dynamic))
          => /\ OnlyNonessential(text, 1)
                => thrown' = "runtime_error" /\ result' = nullptr
             /\ thrown' = "ok"
                <=> \E k \in 1..Len(text) :
                       /\ Expression(SubSeq(text, 1, k), dynamic)
                       /\ OnlyNonessential(text, k + 1)
             /\ thrown' = "ok" => result' # nullptr
             /\ (\E k \in 1..Len(text) :
                    /\ Expression(SubSeq(text, 1, k), dynamic)
                    /\ ~OnlyNonessential(text, k + 1)
                    /\ \A m \in (k + 1)..Len(text) :
                          ~Expression(SubSeq(text, 1, m), dynamic))
                => thrown' # "ok"]_vars

\* `1//` and a line end, then `1`, was parsed: the expression `1` is in
\* result, a significant character is left after the comment, and the
\* parser raised
C16_Witness ==
    /\ last.op = "parse"
    /\ text = "1//\n1"
    /\ thrown = "runtime_error"
    /\ result # nullptr
    /\ heap[result].type = "integer_json"

\* C17: parse_number accepts exactly the texts of the number grammar and
\* classifies the number as real iff a fraction or an exponent is present:
\* it returns with the whole text used up exactly for the texts of the
\* grammar, what it returns is the text and whether it is real, whatever
\* it returns is a leading part of the text that is of the grammar, and a
\* strict parse takes the text exactly when it is of the grammar and in
\* range; `0123`, `3.`, `1.23e`, `-` and `+` raise a parse error and leave
\* the result empty.
C17_NumberGrammar ==
    [][/\ ParseNumber
          => /\ thrown' \in {"ok", "runtime_error"}
             /\ (thrown' = "ok" /\ last'.pos = exhausted)
                <=> \E real \in BOOLEAN : NumberForm(text, real)
             /\ thrown' = "ok"
                => /\ NumberForm(last'.r[1], last'.r[2])
                   /\ last'.r[1] = SubSeq(text, 1, Len(last'.r[1]))
                   /\ last'.pos = exhausted => last'.r[1] = text
             /\ text \in {"0123", "3.", "1.23e", "-", "+"}
                => thrown' = "runtime_error"
       /\ (last.op = "none" /\ ParseText(FALSE))
          => /\ thrown' = "ok"
                <=> \E real \in BOOLEAN :
                       NumberForm(text, real) /\ (real => stof_in_range(text))
             /\ thrown' = "ok"
                => /\ result' # nullptr
                   /\ heap'[result'].type =
                         IF NumberForm(text, TRUE) THEN "real_json"
                         ELSE "integer_json"
             /\ text \in {"0123", "3.", "1.23e", "-", "+"}
                => thrown' = "runtime_error" /\ result' = nullptr]_vars

\* parse_number was called on `1.23e` and raised
C17_Witness ==
    /\ last.op = "parse_number"
    /\ text = "1.23e"
    /\ thrown = "runtime_error"

----------------------------------------------------------------------------
(* Parsing the texts of arrays and objects                                 *)

\* the array and object texts of at most MaxItems elements, with one of
\* seps between two elements, one of trails after the last and one of
\* closes[o] after the opening bracket o
CollectionTexts(seps, trails, closes) ==
    LET elements == [o \in {"[", "{"} |->
                        IF o = "[" THEN {"1", "\"a\"", "[]"}
                        ELSE {"\"a\": 1", "\"b\": []"}]
    IN UNION {{o \o Joined(ts, sep, 1) \o trail \o c :
                  ts \in Seqs(elements[o], MaxItems), sep \in seps,
                  trail \in trails, c \in closes[o]} : o \in {"[", "{"}}

\* elements with a comma, a space or two commas between them, with and
\* without a comma after the last, closed by either bracket or by none
InitCollection ==
    InitText(CollectionTexts({",", " ", ", ,"}, {"", ","},
                             [o \in {"[", "{"} |-> {"]", "}", ""}]))

SpecCollection == InitCollection /\ [][NextRoundTrip]_vars

\* the texts whose elements are separated by exactly one comma and closed
\* by the matching bracket
Separated ==
    CollectionTexts({","}, {""}, [o \in {"[", "{"} |-> IF o = "[" THEN {"]"} ELSE {"}"}])

\* C18: array and object parsing accepts only elements separated by exactly
\* one comma and closed by the matching bracket; a trailing comma, a
\* missing comma between two elements, and input that ends or meets another
\* closing bracket before the matching one each raise a parse error and
\* leave the result empty.
C18_Collections ==
    [][(last.op = "none" /\ ParseText(FALSE))
          => /\ thrown' = "ok" <=> text \in Separated
             /\ thrown' # "ok" => thrown' = "runtime_error" /\ result' = nullptr]_vars

----------------------------------------------------------------------------
(* Parsing the texts of paths                                              *)

\* the expressions written between brackets
KeyTexts == {"0", "1", "\"a\""}

\* the elements written between braces, each with the number of accessors
\* it is made of
PathTexts == {<<".a", 1>>, <<"[1]", 1>>, <<".a[0]", 2>>, <<"1", 0>>, <<"", 0>>}

\* the lists of elements written between braces; one element of no
\* character is no element
PathLists == Seqs(PathTexts, MaxItems) \ {<<<<"", 0>>>>}

\* `$` or `@` followed by one group: the brackets around at most MaxItems
\* expressions or the braces around at most MaxItems elements
InitPath ==
    InitText({hd \o "[" \o Joined(ts, ", ", 1) \o "]" :
                 hd \in {"$", "@"}, ts \in Seqs(KeyTexts, MaxItems)}
             \cup {hd \o "{" \o Joined([i \in DOMAIN ps |-> ps[i][1]], ", ", 1) \o "}" :
                      hd \in {"$", "@"}, ps \in PathLists})

NextPath == ParseText(TRUE) \/ ToStringOf

SpecPath == InitPath /\ [][NextPath]_vars

\* the result of the parse is a reference whose tail is the one accessor-set
\* of n paths
OneSet(h, r, n) ==
    /\ r # nullptr
    /\ IsPlainRef(h, r)
    /\ Len(h[r].tail) = 1
    /\ IsSet(h, h[r].tail[1])
    /\ Len(h[h[r].tail[1]].list) = n
    /\ \A i \in 1..n :
          /\ IsPlainRef(h, h[h[r].tail[1]].list[i])
          /\ h[h[h[r].tail[1]].list[i]].head_type = "accessor"

\* C19: in a path tail `[e]` with exactly one expression appends e itself as
\* the accessor; `[e1,...,en]` with n >= 2 appends one accessor-set of n
\* references, the i-th holding the single accessor ei; a bracket or brace
\* group with no element is not accepted; and every element of a `{...}`
\* set must be a non-empty path.
C19_Groups ==
    [][\A hd \in {"$", "@"} :
          /\ \A ts \in Seqs(KeyTexts, MaxItems) :
                (/\ last.op = "none"
                 /\ text = hd \o "[" \o Joined(ts, ", ", 1) \o "]"
                 /\ ParseText(TRUE))
                => /\ Len(ts) = 0 => thrown' = "runtime_error"
                   /\ Len(ts) = 1
                      => /\ thrown' = "ok"
                         /\ IsPlainRef(heap', result')
                         /\ Len(heap'[result'].tail) = 1
                         /\ ~IsRef(heap', heap'[result'].tail[1])
                         /\ to_string(heap', heap'[result'].tail[1], Fuel) =
                               Str("ok", ts[1])
                   /\ Len(ts) >= 2
                      => /\ thrown' = "ok"
                         /\ OneSet(heap', result', Len(ts))
                         /\ \A i \in 1..Len(ts) :
                               LET e == heap'[heap'[result'].tail[1]].list[i]
                               IN /\ Len(heap'[e].tail) = 1
                                  /\ to_string(heap', heap'[e].tail[1], Fuel) =
                                        Str("ok", ts[i])
          /\ \A ps \in PathLists :
                (/\ last.op = "none"
                 /\ text = hd \o "{" \o Joined([i \in DOMAIN ps |-> ps[i][1]], ", ", 1) \o "}"
                 /\ ParseText(TRUE))
                => /\ (Len(ps) = 0 \/ \E i \in 1..Len(ps) : ps[i][2] = 0)
                      => thrown' = "runtime_error"
                   /\ (Len(ps) > 0 /\ \A i \in 1..Len(ps) : ps[i][2] > 0)
                      => /\ thrown' = "ok"
                         /\ OneSet(heap', result', Len(ps))
                         /\ \A i \in 1..Len(ps) :
                               Len(heap'[heap'[heap'[result'].tail[1]].list[i]].tail) =
                                  ps[i][2]]_vars

----------------------------------------------------------------------------
(* Parsing the texts of function calls                                     *)

\* the arguments written, each with the text it formats as
ArgumentTexts ==
    {<<"@", "@">>, <<"@.a", "@[\"a\"]">>, <<"$", "$">>, <<"$[0]", "$[0]">>,
     <<"1", "1">>}

\* the text of the call of name with the arguments as
Call(name, as) == name \o "(" \o Joined([i \in DOMAIN as |-> as[i][1]], ", ", 1) \o ")"

\* a function name followed by at most MaxItems arguments between brackets
InitCall ==
    InitText({Call(name, as) :
                 name \in {"f", "size"}, as \in Seqs(ArgumentTexts, MaxItems)})

SpecCall == InitCall /\ [][NextPath]_vars

\* C20: setting the arguments of a function raises invalid-argument
\* whenever an argument is a `@` reference with an empty tail, and the
\* function's argument list is then left as it was (empty); arguments that
\* are `@` with a non-empty tail, `$` references or plain values are
\* accepted and stored in order.  The function is the first value the parse
\* makes.
C20_SetArgs ==
    [][\A name \in {"f", "size"}, as \in Seqs(ArgumentTexts, MaxItems) :
          (last.op = "none" /\ text = Call(name, as) /\ ParseText(TRUE))
          => /\ IsFunction(heap', 1)
             /\ heap'[1].str = name
             /\ (\E i \in 1..Len(as) : as[i][1] = "@")
                => /\ thrown' = "invalid_argument"
                   /\ heap'[1].list = <<>>
                   /\ result' = nullptr
             /\ (\A i \in 1..Len(as) : as[i][1] # "@")
                => /\ thrown' = "ok"
                   /\ Len(heap'[1].list) = Len(as)
                   /\ \A i \in 1..Len(as) :
                         to_string(heap', heap'[1].list[i], Fuel) =
                            Str("ok", as[i][2])]_vars

\* `f(1, @)` was parsed: set_args raised and the function holds no argument
C20_Witness ==
    /\ last.op = "parse_dynamic"
    /\ text = "f(1, @)"
    /\ thrown = "invalid_argument"
    /\ IsFunction(heap, 1)
    /\ heap[1].list = <<>>

----------------------------------------------------------------------------
(* Parsing the texts of calls of min and max                               *)

\* the items written: their text, their kind and their integer value
MinMaxItems ==
    {<<"2", "integer", 2>>, <<"-3", "integer", -3>>, <<"true", "boolean", 0>>,
     <<"$", "reference", 0>>}

\* the arguments written: an item, or an array of at most MaxItems items;
\* each with its text, whether it is an array, and its items
MinMaxArguments ==
    {<<s[1], FALSE, <<s>>>> : s \in MinMaxItems}
        \cup {<<"[" \o Joined([i \in DOMAIN ss |-> ss[i][1]], ", ", 1) \o "]",
                TRUE, ss>> : ss \in Seqs(MinMaxItems, MaxItems)}

InitMinMax ==
    InitText({Call(name, as) :
                 name \in {"min", "max", "f"},
                 as \in Seqs(MinMaxArguments, MaxItems)})

SpecMinMax == InitMinMax /\ [][NextPath]_vars

\* what min / max of the arguments as folds over: the items of the one array,
\* or the arguments, of which an array is an item that is no integer
Folded(as) ==
    IF Len(as) = 1 /\ as[1][2] THEN as[1][3]
    ELSE [i \in DOMAIN as |->
             IF as[i][2] THEN <<as[i][1], "array", 0>> ELSE as[i][3][1]]

\* one argument that is neither an array nor a reference
OneScalar(as) == Len(as) = 1 /\ ~as[1][2] /\ as[1][3][1][2] # "reference"

\* the minimum or the maximum of the integer items
Extreme(items, is_max) ==
    LET S == {items[i][3] : i \in 1..Len(items)}
    IN CHOOSE m \in S : \A x \in S : IF is_max THEN x <= m ELSE m <= x

\* the function of the call is returned, holding the arguments written
Symbolic == thrown' = "ok" /\ result' = 1 /\ to_string(heap', 1, Fuel) = Str("ok", text)

\* min / max of the arguments as was parsed in dynamic mode
MinMaxParsed(name, as) ==
    /\ last.op = "none"
    /\ text = Call(name, as)
    /\ ParseText(TRUE)

\* C21 as stated: a non-integer item raises and an item that stays a
\* reference keeps the call symbolic, wherever they are among the items.
C21_MinMax_AsStated ==
    [][\A name \in {"min", "max"}, as \in Seqs(MinMaxArguments, MaxItems) :
          (MinMaxParsed(name, as) /\ ~OneScalar(as))
          => LET items == Folded(as)
             IN /\ (\E i \in 1..Len(items) :
                       items[i][2] \notin {"integer", "reference"})
                   => thrown' = "invalid_argument"
                /\ (\E i \in 1..Len(items) : items[i][2] = "reference")
                   => Symbolic]_vars

\* C21: min(x...) / max(x...) of one array argument is the minimum / maximum
\* of the array's integer items, and of two or more arguments that of the
\* arguments; zero arguments or an empty array raise invalid-argument; the
\* first item, in order, that is not an integer decides otherwise: if its
\* value() is still a reference the call returns itself with its arguments
\* as written, else invalid-argument is raised.  A function with any other
\* name than size / min / max returns itself.  (One argument that is neither
\* an array nor a reference is not an array's items nor two arguments.)
C21_MinMax ==
    [][\A name \in {"min", "max", "f"}, as \in Seqs(MinMaxArguments, MaxItems) :
          MinMaxParsed(name, as)
          => LET items == Folded(as)
                 others == {i \in 1..Len(items) : items[i][2] # "integer"}
             IN IF name = "f" THEN Symbolic
                ELSE IF OneScalar(as) THEN TRUE
                ELSE IF Len(items) = 0 THEN thrown' = "invalid_argument"
                ELSE IF others # {}
                THEN IF items[CHOOSE i \in others : \A j \in others : i <= j][2]
                           = "reference"
                     THEN Symbolic
                     ELSE thrown' = "invalid_argument"
                ELSE /\ thrown' = "ok"
                     /\ heap'[result'].type = "integer_json"
                     /\ heap'[result'].value = Extreme(items, name = "max")]_vars

\* `min([2, -3])` was parsed and gave -3
C21_Witness ==
    /\ last.op = "parse_dynamic"
    /\ text = "min([2, -3])"
    /\ thrown = "ok"
    /\ heap[result].type = "integer_json"
    /\ heap[result].value = -3

\* C30: whenever min or max returns an integer, that integer is one of the
\* integer arguments or array items the function was called with, also for
\* one argument that is an integer and no array.
C30_MinMaxOfArguments ==
    [][\A name \in {"min", "max"}, as \in Seqs(MinMaxArguments, MaxItems) :
          (/\ MinMaxParsed(name, as)
           /\ thrown' = "ok"
           /\ heap'[result'].type = "integer_json")
          => \E i \in 1..Len(as) : \E k \in 1..Len(as[i][3]) :
                /\ as[i][3][k][2] = "integer"
                /\ as[i][3][k][3] = heap'[result'].value]_vars

----------------------------------------------------------------------------
(* Parsing a text and formatting the value with pretty                     *)

\* result->to_string(true), which is to_string(0, true)
FormattedString ==
    /\ result # nullptr
    /\ last.op \notin {"to_string", "formatted_string"}
    /\ \E s \in {indented_string(heap, result, 0, TRUE, Fuel)} :
          /\ text' = s.s
          /\ thrown' = s.st
    /\ last' = Op("formatted_string", result)
    /\ UNCHANGED <<heap, result, free, atoms>> /\ Toggles

NextPretty == ParseText(FALSE) \/ ToStringOf \/ FormattedString

SpecPretty == InitRoundTrip /\ [][NextPretty]_vars

RECURSIVE Compact(_, _, _)
RECURSIVE Rendered(_, _, _, _)

\* a scalar, an empty array or object, an object with a single child that
\* is compact and empty (a scalar is empty); with arrays, also an array
\* whose every item is compact and empty
Compact(h, x, arrays) ==
    LET CompactEmpty(c) == Compact(h, c, arrays) /\ is_empty(h, c)
    IN \/ h[x].type \notin {"array_json", "object_json"}
       \/ Len(h[x].list) = 0
       \/ /\ h[x].type = "object_json"
          /\ Len(h[x].list) = 1
          /\ CompactEmpty(h[x].list[1])
       \/ /\ arrays
          /\ h[x].type = "array_json"
          /\ \A i \in 1..Len(h[x].list) : CompactEmpty(h[x].list[i])

\* the text of x at a level: on one line when x is compact, else one
\* element per line with level + 1 tabs before it, `,` after every element
\* but the last, and the closing bracket on its own line after level tabs
Rendered(h, x, level, arrays) ==
    IF Compact(h, x, arrays) THEN to_string(h, x, Fuel).s
    ELSE (IF h[x].type = "array_json" THEN "[" ELSE "{") \o "\n"
         \o Joined([i \in 1..Len(h[x].list) |->
                       tabs(level + 1)
                       \o (IF h[x].type = "object_json"
                           THEN "\"" \o h[x].keys[i] \o "\": " ELSE "")
                       \o Rendered(h, h[x].list[i], level + 1, arrays)],
                   ",\n", 1)
         \o "\n" \o tabs(level)
         \o (IF h[x].type = "array_json" THEN "]" ELSE "}")

\* C22 as stated: of the arrays only the empty one is compact.
C22_Compact_AsStated ==
    [][FormattedString
       => /\ thrown' = "ok"
          /\ text' = Rendered(heap, result, 0, FALSE)
          /\ \A x \in 1..Len(heap) :
                is_inline(heap, x, Fuel) <=> Compact(heap, x, FALSE)]_vars

\* C22: a value is compact exactly when it is a scalar, an array whose
\* every item is compact and empty (the empty array among them), an empty
\* object, or an object with a single child that is compact and empty,
\* where a scalar counts as empty; a compact container is rendered on one
\* line even when pretty output is requested, and every other container is
\* rendered with one element per line under pretty.
C22_Compact ==
    [][FormattedString
       => /\ thrown' = "ok"
          /\ text' = Rendered(heap, result, 0, TRUE)
          /\ \A x \in 1..Len(heap) :
                is_inline(heap, x, Fuel) <=> Compact(heap, x, TRUE)]_vars

\* `[[null, -7]]` was formatted with pretty: the inner array on a line of
\* its own
C22_Witness ==
    /\ last.op = "formatted_string"
    /\ thrown = "ok"
    /\ text = "[\n\t[null, -7]\n]"

----------------------------------------------------------------------------
(* The operations of a reference called one by one                         *)

\* 0, "a", {"a": 0} and [{"a": 0}, 0]; a reference q and a reference r,
\* each made of a head kind or of a value, r possibly of q; the function
\* f() and the set {[0]}
InitReference ==
    /\ \E q \in {<<"local", nullptr>>, <<"root", nullptr>>,
                 <<"accessor", nullptr>>, <<"object", 3>>, <<"object", 4>>},
          r \in {<<"local", nullptr>>, <<"root", nullptr>>,
                 <<"accessor", nullptr>>, <<"object", 3>>, <<"object", 4>>,
                 <<"object", 5>>} :
          heap = <<json_integer(0), json_string("a"),
                   json_object(<<"a">>, <<1>>), json_array(<<3, 1>>),
                   IF q[1] = "object" THEN json_reference_to(q[2])
                   ELSE json_reference(q[1]),
                   IF r[1] = "object" THEN json_reference_to(r[2])
                   ELSE json_reference(r[1]),
                   json_function("f"), json_set(<<9>>),
                   [json_reference("accessor") EXCEPT !.tail = <<1>>]>>
    /\ free = {x \in {5, 7, 8} : \A y \in 1..Len(heap) : heap[y].head # x}
    /\ atoms = 0
    /\ result = nullptr
    /\ thrown = "ok"
    /\ text = ""
    /\ last = Op("none", nullptr)
    /\ enable_symmetric_indexing = FALSE
    /\ enable_negative_indexing = FALSE

\* what a call on a reference leaves: the heap, the exception, and in
\* result what the caller was handed
Called(c, res, op) ==
    /\ thrown = "ok"
    /\ \A x \in 1..Len(c.h) : Len(c.h[x].tail) <= MaxPath
    /\ heap' = c.h
    /\ thrown' = c.st
    /\ result' = res
    /\ last' = op
    /\ UNCHANGED <<text, atoms>> /\ Toggles

\* r->emplace_back(accessor): the accessor is 0, "a", or a reference that
\* is not part of another value yet
EmplaceBack(r, accessor) ==
    /\ accessor \in {1, 2} \cup free
    /\ free' = free \ {accessor}
    /\ \E e \in {emplace_back(heap, r, accessor, Fuel)} :
          Called(e, result, Op("emplace_back", r))

\* r->set_parent(local), here on the references q and r
SetParentOf(r, local) ==
    /\ UNCHANGED free
    /\ \E p \in {set_parent(heap, r, local, Fuel)} :
          Called(p, result, [op |-> "set_parent", r |-> r, local |-> local])

\* result = r->value()
ValueOf(r) ==
    /\ UNCHANGED free
    /\ \E v \in {value(heap, r, Fuel)} : Called(v, v.v, Op("value", r))

NextReference ==
    \/ \E accessor \in {1, 2, 5, 7, 8} : EmplaceBack(6, accessor)
    \/ \E accessor \in {1, 2, 7, 8} : EmplaceBack(5, accessor)
    \/ \E r \in {5, 6}, local \in {3, 4} : SetParentOf(r, local)
    \/ \E r \in {5, 6} : ValueOf(r)

SpecReference == InitReference /\ [][NextReference]_vars

\* C23: emplace_back(a) on a plain reference appends a as the last tail
\* element and runs simplify immediately iff, before the append, the head
\* kind was `object` and the tail was empty; in every other case the only
\* change is the appended accessor: head kind, head and the earlier tail
\* elements are untouched, as is every other value.
C23_EmplaceBack ==
    [][\A r \in {5, 6}, a \in {1, 2, 5, 7, 8} :
          EmplaceBack(r, a)
          => LET appended == [heap EXCEPT ![r].tail = Append(@, a)]
             IN IF heap[r].head_type = "object" /\ heap[r].tail = <<>>
                THEN \E s \in {simplify(appended, r, Fuel)} :
                        /\ thrown' = s.st
                        /\ s.st # "overflow" => heap' = s.h
                ELSE /\ heap' = appended
                     /\ thrown' = "ok"]_vars

\* emplace_back on a reference made of [{"a": 0}, 0] resolved 0 at once,
\* and emplace_back on what was left resolved "a" in its turn
C23_Witness ==
    /\ last = Op("emplace_back", 6)
    /\ thrown = "ok"
    /\ heap[6].head_type = "object"
    /\ heap[6].head = 1
    /\ heap[6].tail = <<>>

\* C24: set_parent(v) on a plain reference rewrites the head to object(v)
\* and then simplifies iff the head kind is `local` or `accessor`; on a
\* reference whose head kind is `root` or `object` it changes nothing, so a
\* reference bound before is never bound again, whatever v is.
C24_SetParent ==
    [][\A r \in {5, 6}, v \in {3, 4} :
          SetParentOf(r, v)
          => LET bound == [heap EXCEPT ![r].head = v, ![r].head_type = "object"]
             IN IF heap[r].head_type \in {"local", "accessor"}
                THEN \E s \in {simplify(bound, r, Fuel)} :
                        /\ thrown' = s.st
                        /\ s.st # "overflow" => heap' = s.h
                        /\ heap'[r].head_type = "object"
                ELSE /\ heap' = heap
                     /\ thrown' = "ok"]_vars

\* set_parent({"a": 0}) was called on a reference bound before to
\* [{"a": 0}, 0], which it still has for its head
C24_Witness ==
    /\ last.op = "set_parent"
    /\ last.r = 6
    /\ last.local = 3
    /\ thrown = "ok"
    /\ heap[6].head_type = "object"
    /\ heap[6].head = 4
    /\ heap[6].tail = <<7>>

RECURSIVE Chased(_, _)

\* the head, looked through while it is a plain reference with an object
\* head and no tail
Chased(h, x) ==
    IF IsPlainRef(h, x) /\ h[x].head_type = "object" /\ h[x].tail = <<>>
    THEN Chased(h, h[x].head) ELSE x

\* C27: value() on a plain reference returns the reference itself when its
\* tail is non-empty or its head kind is not `object`; otherwise it returns
\* the head, chasing through nested references, so what it returns is never
\* a plain reference with an `object` head and an empty tail; value()
\* changes no field of the reference.
C27_Value ==
    [][\A r \in {5, 6} :
          ValueOf(r)
          => /\ thrown' = "ok"
             /\ heap' = heap
             /\ result' = Chased(heap, r)
             /\ (heap[r].tail # <<>> \/ heap[r].head_type # "object")
                => result' = r
             /\ ~(/\ IsPlainRef(heap', result')
                  /\ heap'[result'].head_type = "object"
                  /\ heap'[result'].tail = <<>>)]_vars

\* value() of r, made of q, which was bound since: the value q was bound to
C27_Witness ==
    /\ last = Op("value", 6)
    /\ heap[6].head = 5
    /\ heap[6].tail = <<>>
    /\ heap[5].head_type = "object"
    /\ heap[5].tail = <<>>
    /\ result = heap[5].head
    /\ result \in {3, 4}

\* C28: simplify() terminates on every reference: each pass of its loop
\* removes the front accessor, or replaces it by a more reduced value, or
\* returns, or raises; no call runs on beyond Fuel passes, also when the
\* front accessor is a plain reference bound to an object head that still
\* carries a pending tail.
C28_SimplifyTerminates == thrown # "overflow"

----------------------------------------------------------------------------
(* Parsing the texts of a set projection followed by an accessor           *)

\* the accessors written behind the projection: an index, `$`, two indexes
\* and a path from `@`; each with its text, its kind and its index
ProjectionAccessors ==
    {<<"[0]", "index", 0>>, <<"[1]", "index", 1>>, <<"[$]", "root", 0>>,
     <<"[1, 1]", "set", 1>>, <<"[@[0]]", "local", 0>>}

\* the text of a row of integers
RowText(row) == "[" \o Joined([i \in DOMAIN row |-> ToString(row[i])], ", ", 1) \o "]"

\* the text h{p1, ..., pn}a of the array h of rows, the indexes ps and the
\* accessor a
ProjectionText(h, ps, a) ==
    "[" \o Joined([i \in DOMAIN h |-> RowText(h[i])], ", ", 1) \o "]"
    \o "{" \o Joined([i \in DOMAIN ps |-> "[" \o ToString(ps[i]) \o "]"], ", ", 1)
    \o "}" \o a[1]

\* arrays of two rows of two indexes each
ProjectionHeads == [1..2 -> {<<0, 1>>, <<1, 0>>, <<1, 1>>}]

ProjectionPaths == Seqs({0, 1}, MaxItems) \ {<<>>}

InitProjection ==
    InitText({ProjectionText(h, ps, a) :
                 h \in ProjectionHeads, ps \in ProjectionPaths,
                 a \in ProjectionAccessors})

SpecProjection == InitProjection /\ [][NextPath]_vars

\* the text of a row resolved along the accessor a
Along(row, a) ==
    CASE a[2] = "index" -> ToString(row[a[3] + 1])
      [] a[2] = "root" -> RowText(row) \o "[$]"
      [] a[2] = "set" -> RowText(<<row[a[3] + 1], row[a[3] + 1]>>)
      [] a[2] = "local" -> ToString(row[row[1] + 1])

\* C25: an accessor a that follows a set projection is applied to every
\* element of the set: h{p1, ..., pn}a evaluates to the list of (h resolved
\* along pi, then a) in order, and an a that cannot be resolved (`$`) is
\* left pending on each element separately.
C25_ProjectionThenAccessor ==
    [][\A h \in ProjectionHeads, ps \in ProjectionPaths,
          a \in ProjectionAccessors :
          (last.op = "none" /\ text = ProjectionText(h, ps, a) /\ ParseText(TRUE))
          => /\ thrown' = "ok"
             /\ to_string(heap', result', Fuel) =
                   Str("ok", "[" \o Joined([i \in DOMAIN ps |->
                                               Along(h[ps[i] + 1], a)], ", ", 1)
                                 \o "]")]_vars

----------------------------------------------------------------------------
(* touch() called on values that share children and hold cycles            *)

\* 0, an array and an object whose children are any of the values, and a
\* reference to one of the two with `$` pending, which value() leaves as a
\* child; no flag is set
InitTouch ==
    /\ \E arr \in Seqs(1..4, MaxLen), obj \in Seqs(1..4, MaxLen), hd \in {2, 3} :
          heap = <<json_integer(0), json_array(arr),
                   json_object(SubSeq(<<"a", "b", "c">>, 1, Len(obj)), obj),
                   [json_reference_to(hd) EXCEPT !.tail = <<5>>],
                   json_reference("root")>>
    /\ free = {}
    /\ atoms = 0
    /\ result = nullptr
    /\ thrown = "ok"
    /\ text = ""
    /\ last = Op("none", nullptr)
    /\ enable_symmetric_indexing = FALSE
    /\ enable_negative_indexing = FALSE

\* x->touch()
Touch(x) ==
    /\ UNCHANGED free
    /\ \E t \in {touch(heap, x, Fuel)} : Called(t, result, Op("touch", x))

NextTouch == \E x \in 1..5 : Touch(x)

SpecTouch == InitTouch /\ [][NextTouch]_vars

RECURSIVE Entered(_, _, _)

\* the arrays and objects that a traversal from x comes back to while it is
\* still inside them, entered being those it is inside of
Entered(h, entered, x) ==
    IF h[x].type \in {"array_json", "object_json"}
    THEN IF x \in entered THEN {x}
         ELSE UNION {Entered(h, entered \cup {x}, c) : c \in Range(h[x].list)}
    ELSE IF IsRef(h, x)
    THEN UNION {Entered(h, entered, c) : c \in Succ(h, x)}
    ELSE {}

\* C26: touch() on an array or object sets `looped` and returns without
\* visiting children iff its `touched` flag is already set; otherwise it
\* sets `touched`, touches each child, then clears `touched`.  Hence when a
\* top-level touch() returns, every `touched` flag is false, the values
\* flagged are those the traversal came back to while inside them, and
\* `looped` is set only on values reachable from themselves: a shared value
\* without a cycle, reached twice, is never flagged.
C26_Touch ==
    [][\A x \in 1..5 :
          Touch(x)
          => /\ thrown' = "ok"
             /\ \A y \in 1..Len(heap) :
                   /\ heap'[y] = [heap[y] EXCEPT
                                     !.looped = @ \/ y \in Entered(heap, {}, x)]
                   /\ ~heap'[y].touched
                   /\ heap'[y].looped => y \in Reach(heap, Succ(heap, y))]_vars

\* the array [o, o] of the object o = {"a": 0} was touched: o was reached
\* twice and nothing is flagged
C26_Witness ==
    /\ last = Op("touch", 2)
    /\ heap[2].list = <<3, 3>>
    /\ heap[3].list = <<1>>
    /\ \A y \in 1..Len(heap) : ~heap[y].looped /\ ~heap[y].touched

\* ---------------------------------------------------------------------------
\* Reading the current character
\* ---------------------------------------------------------------------------

ScanCharacters == {"$", ".", "\"", "a", "[", "]"}

InitScan == InitText(Strings(ScanCharacters, MaxText))

SpecScan == InitScan /\ [][NextSpace]_vars

\* texts that end right after the dot of an accessor or right after an opening quote
OpenEnded == {"$.", "$.a.", "$[$.", "\"", "[\"", "$[\""}

\* C29: the current character is read only where valid() holds, so no parse
\* reads it on an exhausted scanner, and a text that ends right after the dot
\* of an accessor or right after an opening quote ends in a parse error
C29_PeekOnlyWhenValid ==
    /\ thrown # "undefined"
    /\ last.op = "parse_dynamic" /\ text \in OpenEnded => thrown = "runtime_error"

====
